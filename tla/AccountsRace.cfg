SPECIFICATION LiveSpec
CONSTANTS
    email = email
    telegram = telegram
    User = {u1}
    Request = {r1, r2, r3}
    Channel <- EmailTelegram
    Default <- EmailOnly
    MaxDeaths = 1
    None = None
INVARIANTS TypeOK HalfMadeOnlyByDeath ChoicesKept
PROPERTIES ClosedForGood ClosedIsRefused
