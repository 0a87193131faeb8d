---------------------------- MODULE CheckVerdict ----------------------------
(***************************************************************************)
(* The verdict on a site.  A check asks the probes service over gRPC and,   *)
(* when that fails, asks the site itself.  The two are separate programs   *)
(* with rules of their own: what the owner is told must not depend on      *)
(* which of them happened to answer.                                       *)
(***************************************************************************)
EXTENDS Naturals

CONSTANTS
    Status,  \* HTTP status codes
    Null     \* SQL NULL

Errors == {"status", "keyword", "timeout", "network", "other"}

ASSUME VerdictAssumption ==
    /\ Status \subseteq Nat \ {0}
    /\ Null \notin Errors \cup {"", "word"}
    /\ Null \notin [status : Nat, is_success : BOOLEAN, error : Errors \cup {""}]

(* What a site does when asked: it answers, with a status and with or       *)
(* without the keyword; or the attempt ends in a timeout, a network error   *)
(* or another exception.  Its certificate is valid or not.                  *)
Answer == [kind : {"response", "timeout", "network", "other"},
           status : Status, word : BOOLEAN, cert : BOOLEAN]

(* expected_keyword may be NULL or empty. *)
Expectation == [expected : Status \cup {0}, keyword : {Null, "", "word"}]

-----------------------------------------------------------------------------
(* monitors: the local fallback *)

(* httpx verifies certificates unless it is told not to. *)
ReceivedLocally(a) == IF a.cert THEN a.kind ELSE "network"

(* execute_monitor_check_local *)
CheckLocally(m, a) ==
    LET matches == a.status = m.expected
        found == m.keyword \notin {Null, ""} => a.word
    IN IF ReceivedLocally(a) = "response"
       THEN [status |-> a.status, is_success |-> matches /\ found,
             error |-> IF ~matches THEN "status"
                       ELSE IF ~found THEN "keyword" ELSE Null]
       ELSE [status |-> Null, is_success |-> FALSE, error |-> ReceivedLocally(a)]

-----------------------------------------------------------------------------
(* probes *)

(* serve(): one client for all checks, with verify=False. *)
ReceivedByProbe(a) == a.kind

(* expected_keyword is optional in the message: NULL is an absent field. *)
Params(m) == [expected |-> m.expected, keyword |-> m.keyword]

(* HttpChecker._validate_response *)
ValidateResponse(params, a) ==
    IF a.status # params.expected THEN "status"
    ELSE IF params.keyword \notin {Null, ""} /\ ~a.word THEN "keyword"
    ELSE ""

(* HttpChecker._build_result: 0 and "" stand for what is missing. *)
BuildResult(status, error) ==
    [status |-> status, is_success |-> error = "", error |-> error]

(* HttpChecker.execute *)
CheckByProbe(params, a) ==
    IF ReceivedByProbe(a) = "response"
    THEN BuildResult(a.status, ValidateResponse(params, a))
    ELSE BuildResult(0, ReceivedByProbe(a))

(* ProbeGrpcService.ExecuteCheck *)
ExecuteCheck(m, a) == CheckByProbe(Params(m), a)

-----------------------------------------------------------------------------
(* monitors: the main path *)

(* Mutant: the 0 of a missing status is stored. *)
Stored_zero(reply) ==
    [reply EXCEPT !.error = IF @ = "" THEN Null ELSE @]

(* The row made of a reply. *)
Stored(reply) ==
    [status |-> IF reply.status # 0 THEN reply.status ELSE Null,
     is_success |-> reply.is_success,
     error |-> IF reply.error # "" THEN reply.error ELSE Null]

(* execute_probe_check_via_grpc: None when the RPC fails, for any reason. *)
ProbeResponse(m, a, rpc) == IF rpc = "answers" THEN ExecuteCheck(m, a) ELSE Null

(* execute_monitor_check: a is the answer of the site to whoever asked last. *)
CheckMonitor(m, a, rpc) ==
    LET response == ProbeResponse(m, a, rpc) IN
    IF response # Null THEN Stored(response) ELSE CheckLocally(m, a)

-----------------------------------------------------------------------------
(* What a verdict should be, whoever reaches it. *)
Deserved(m, a) ==
    /\ a.kind = "response" /\ a.status = m.expected
    /\ m.keyword = "word" => a.word

(* The rows of one path: never up undeserved, and for a site whose            *)
(* certificate is valid (or that needs none) exactly what it deserves, with   *)
(* the status if there was one and an error if it is down.                    *)
Sound(rpc) ==
    \A m \in Expectation, a \in Answer :
        LET row == CheckMonitor(m, a, rpc) IN
        /\ row.is_success => Deserved(m, a)
        /\ a.cert => /\ row.is_success = Deserved(m, a)
                     /\ row.status = IF a.kind = "response" THEN a.status ELSE Null
                     /\ row.is_success = (row.error = Null)

SoundByProbes == Sound("answers")
SoundLocally == Sound("fails")
=============================================================================
