------------------------------- MODULE Session -------------------------------
(***************************************************************************)
(* What a session does to a radio and tells of it, so that one run covers  *)
(* all of it: the deltas that follow its state ("deltas", RadioState), the *)
(* PATCH that changes it ("patch", SessionPatch), the backends that speak  *)
(* to the radio ("kenwood", Kenwood; "icom", CIV; "yaesu", Yaesu), and the *)
(* test run that moves every control and puts it back ("selftest",         *)
(* SelfTest).  A behaviour is of one of them; the others' variables are    *)
(* set aside.                                                              *)
(***************************************************************************)
EXTENDS RadioState

CONSTANTS Requests, MaxPolls, MaxPanel                  \* "patch"
CONSTANTS KenwoodModels, KenwoodSettings, IcomModels, IcomSettings,
          YaesuModels, YaesuSettings, MaxEvents, MaxFaults      \* the backends
CONSTANTS TestRadios, MaxMishaps                        \* "selftest"

VARIABLES
    part,       \* the part that runs
    backend, outside, rig, changing, hint, cache, req, todo, tiers, polls, at,
    result, wrote, tunedOn, declined, lost, turned, panels, \* SessionPatch's
    model, radio, known, shown, op, steps, late, asked, outcome, before, trusted,
    failing, rounds, events, faults,                        \* the backends'
    bulkPoll,                                               \* Kenwood's own
    got,                                                    \* CIV's own
    unheard,                                                \* Yaesu's own
    caps, allowed, foundInCW, dial, air, link, told, initial, was, agenda, restoring,
    interrupted, errs, mishaps                              \* SelfTest's

Patching == INSTANCE SessionPatch

\* A client can only name the fields there are (PatchRequest).
ASSUME SessionAssumption == Requests \subseteq SUBSET Patching!Fields

OverKenwood == INSTANCE Kenwood WITH Models <- KenwoodModels, Settings <- KenwoodSettings
OverCIV == INSTANCE CIV WITH Models <- IcomModels, Settings <- IcomSettings
OverYaesu == INSTANCE Yaesu WITH Models <- YaesuModels, Settings <- YaesuSettings
Testing == INSTANCE SelfTest

patchVars == <<backend, outside, rig, changing, hint, cache, req, todo, tiers, polls, at,
               result, wrote, tunedOn, declined, lost, turned, panels>>
backendVars == <<model, radio, known, shown, op, steps, late, asked, outcome, before,
                 trusted, failing, rounds, events, faults, bulkPoll, got, unheard>>
testVars == <<caps, allowed, foundInCW, dial, air, link, told, initial, was, agenda,
              restoring, interrupted, errs, mishaps>>
sessionVars == <<part, vars, patchVars, backendVars, testVars>>

NoPatch ==
    /\ backend = "none" /\ outside = "none" /\ rig = "none" /\ changing = FALSE
    /\ hint = "none" /\ cache = "none" /\ req = "none" /\ todo = "none" /\ tiers = "none"
    /\ polls = 0 /\ at = "none" /\ result = "none" /\ wrote = FALSE /\ tunedOn = "none"
    /\ declined = FALSE /\ lost = FALSE /\ turned = {} /\ panels = 0
NoBackend ==
    /\ model = "none" /\ radio = "none" /\ known = "none" /\ shown = "none" /\ op = "none"
    /\ steps = "none" /\ late = "none" /\ asked = "none" /\ outcome = "none"
    /\ before = "none" /\ trusted = FALSE /\ failing = {} /\ rounds = 0 /\ events = 0
    /\ faults = 0 /\ bulkPoll = FALSE /\ got = "none" /\ unheard = FALSE

NoTest ==
    /\ caps = "none" /\ allowed = {} /\ foundInCW = FALSE /\ dial = "none" /\ air = "none"
    /\ link = "none" /\ told = "none" /\ initial = "none" /\ was = "none" /\ agenda = <<>>
    /\ restoring = FALSE /\ interrupted = FALSE /\ errs = FALSE /\ mishaps = 0

SessionInit ==
    /\ Init
    /\ \/ part = "deltas" /\ NoPatch /\ NoBackend /\ NoTest
       \/ part = "patch" /\ Patching!Init /\ NoBackend /\ NoTest
       \/ part = "kenwood" /\ NoPatch /\ OverKenwood!Init /\ got = "none"
          /\ bulkPoll = OverKenwood!P.bulk /\ unheard = FALSE /\ NoTest
       \/ part = "icom" /\ NoPatch /\ OverCIV!Init /\ bulkPoll = FALSE /\ unheard = FALSE
          /\ NoTest
       \/ part = "yaesu" /\ NoPatch /\ OverYaesu!Init /\ bulkPoll = FALSE /\ got = "none"
          /\ NoTest
       \/ part = "selftest" /\ NoPatch /\ NoBackend /\ Testing!Init

OnDeltas(A) == part = "deltas" /\ A /\ UNCHANGED <<part, patchVars, backendVars, testVars>>
OnPatch(A) == part = "patch" /\ A /\ UNCHANGED <<part, vars, backendVars, testVars>>
OnKenwood(A) ==
    part = "kenwood" /\ A /\ UNCHANGED <<part, vars, patchVars, got, unheard, testVars>>
OnIcom(A) ==
    part = "icom" /\ A /\ UNCHANGED <<part, vars, patchVars, bulkPoll, unheard, testVars>>
OnYaesu(A) ==
    part = "yaesu" /\ A /\ UNCHANGED <<part, vars, patchVars, bulkPoll, got, testVars>>
OnTest(A) == part = "selftest" /\ A /\ UNCHANGED <<part, vars, patchVars, backendVars>>

SessionNext ==
    \/ OnDeltas(Next)
    \/ OnPatch(Patching!Next)
    \/ OnKenwood(OverKenwood!Next)
    \/ OnIcom(OverCIV!Next)
    \/ OnYaesu(OverYaesu!Next)
    \/ OnTest(Testing!Next)

SessionSpec == SessionInit /\ [][SessionNext]_sessionVars
=============================================================================
