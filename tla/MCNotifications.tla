-------------------------- MODULE MCNotifications ---------------------------
(* Small instances of Notifications for TLC. *)
EXTENDS Notifications

ToEmail == [a \in Alert |-> "email"]
ToTelegram == [a \in Alert |-> "telegram"]
ToSms == [a \in Alert |-> "sms"]

Recovery == [a \in Alert |-> "info"]

(* The longest name whose recovery has a title that fits, and one more. *)
Name237 == [a \in Alert |-> 237]
Name238 == [a \in Alert |-> 238]
=============================================================================
