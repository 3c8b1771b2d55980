------------------------------ MODULE Printers ------------------------------
(***************************************************************************)
(* The printer registry: SNMP polls of known printers                      *)
(* (services/printer_monitor.py), the search for new ones through the PCs  *)
(* of the rooms (services/printer_discovery.py) and the edits of           *)
(* operators (routers/printers.py).                                        *)
(*                                                                         *)
(* The search holds a Redis key for two hours from the moment it is asked  *)
(* for; a round over the rooms takes up to an hour, and a round that is    *)
(* over renews the key.  The message may wait in the queue, a worker may   *)
(* die.  Time passes in hours, so a poll and its key (three minutes) come  *)
(* and go without it.  One printer is followed, and its address; the PCs   *)
(* of the rooms are abstracted to the number of rounds.                    *)
(***************************************************************************)
EXTENDS Naturals, FiniteSets

CONSTANTS
    Address,     \* addresses the printer may be given, or may be found at
    Search,      \* searches, each with a token of its own
    MaxRounds,   \* PCs of the room that has most
    MaxEdits,    \* bound: requests of operators
    MaxFailures  \* bound: workers that die, messages refused, polls unanswered

TTL   == 2  \* hours
Round == 1

VARIABLES
    printer,  \* its row: address, whose data it shows, status
    poll,     \* the poll in progress
    pollKey,  \* is the key of printer polls held
    key,      \* the key of the search: token and hours left
    searches, \* search -> how far it is
    status,   \* what the status key says, and of which search
    found,    \* addresses the search has added
    spare     \* what remains of the bounds

vars == <<printer, poll, pollKey, key, searches, status, found, spare>>

NoKey     == [token |-> "none", ttl |-> 0]
NoPoll    == [stage |-> "idle", address |-> "none"]
Addresses == Address \cup {"none"}
Stages    == {"new", "asked", "queued", "taken", "scanning", "adding", "closing", "over"}

PrintersTypeOK ==
    /\ printer \in [address : Addresses, data : Addresses, status : {"unknown", "online", "unreachable"}]
    /\ poll \in [stage : {"idle", "asked", "done"}, address : Addresses]
    /\ pollKey \in BOOLEAN
    /\ key = NoKey \/ key \in [token : Search, ttl : 1..TTL]
    /\ searches \in [Search -> [stage : Stages, rounds : 0..MaxRounds, hours : 0..Round]]
    /\ status.says \in {"never", "queued", "running", "completed", "failed"}
    /\ found \subseteq Address
    /\ spare \in [edits : 0..MaxEdits, failures : 0..MaxFailures]

Init ==
    /\ printer \in [address : Addresses, data : {"none"}, status : {"unknown"}]
    /\ poll = NoPoll
    /\ pollKey = FALSE
    /\ key = NoKey
    /\ searches = [s \in Search |-> [stage |-> "new", rounds |-> 0, hours |-> 0]]
    /\ status = [says |-> "never"]
    /\ found = {}
    /\ spare = [edits |-> MaxEdits, failures |-> MaxFailures]

Spend(kind) ==
    /\ spare[kind] > 0
    /\ spare' = [spare EXCEPT ![kind] = @ - 1]

-----------------------------------------------------------------------------
(* Polls.                                                                  *)

PollBegin ==
    /\ ~pollKey /\ poll = NoPoll
    /\ printer.address # "none"
    /\ pollKey' = TRUE
    /\ poll' = [stage |-> "asked", address |-> printer.address]
    /\ UNCHANGED <<printer, key, searches, status, found, spare>>

\* The second session: a printer that has been edited since is left alone.
PollCheck ==
    /\ poll.stage = "asked"
    /\ IF printer.address = poll.address
       THEN poll' = [poll EXCEPT !.stage = "done"] /\ UNCHANGED pollKey
       ELSE poll' = NoPoll /\ pollKey' = FALSE
    /\ UNCHANGED <<printer, key, searches, status, found, spare>>

\* ... and its commit; an edit may have come in between.
PollSave(answered) ==
    /\ poll.stage = "done"
    /\ answered \/ spare.failures > 0
    /\ spare' = [spare EXCEPT !.failures = IF answered THEN @ ELSE @ - 1]
    /\ printer' = IF answered THEN [printer EXCEPT !.data = poll.address, !.status = "online"]
                  ELSE [printer EXCEPT !.status = "unreachable"]
    /\ poll' = NoPoll
    /\ pollKey' = FALSE
    /\ UNCHANGED <<key, searches, status, found>>

PollDies ==
    /\ poll # NoPoll
    /\ Spend("failures")
    /\ poll' = NoPoll
    /\ UNCHANGED <<printer, pollKey, key, searches, status, found>>

\* Mutant: the key of a poll is set without a lifetime.
PollKeyLasts == FALSE

\* The key of a worker that died expires.
PollKeyExpires ==
    /\ pollKey /\ poll = NoPoll
    /\ pollKey' = FALSE
    /\ UNCHANGED <<printer, poll, key, searches, status, found, spare>>

\* create_printer, update_printer and delete_printer.
Edit(a) ==
    /\ printer.address # a
    /\ a \notin found
    /\ Spend("edits")
    /\ printer' = [address |-> a, data |-> "none", status |-> "unknown"]
    /\ UNCHANGED <<poll, pollKey, key, searches, status, found>>

-----------------------------------------------------------------------------
(* The search.                                                             *)

At(s, stage) == searches[s].stage = stage

Moves(s, stage) ==
    searches' = [searches EXCEPT ![s].stage = stage, ![s].hours = 0]

Says(s, what) == status' = [says |-> what, by |-> s]

\* enqueue_discovery: by the beat or an operator.
Enqueue(s) ==
    /\ At(s, "new")
    /\ key = NoKey
    /\ key' = [token |-> s, ttl |-> TTL]
    /\ Moves(s, "asked")
    /\ Says(s, "queued")
    /\ UNCHANGED <<printer, poll, pollKey, found, spare>>

Send(s) ==
    /\ At(s, "asked")
    /\ \/ Moves(s, "queued") /\ UNCHANGED <<key, status, spare>>
       \/ /\ Spend("failures")
          /\ Moves(s, "over")
          /\ key' = NoKey
          /\ Says(s, "failed")
    /\ UNCHANGED <<printer, poll, pollKey, found>>

\* discover_printers: a message that has waited too long does nothing.
Take(s) ==
    /\ At(s, "queued")
    /\ Moves(s, IF key.token = s THEN "taken" ELSE "over")
    /\ UNCHANGED <<printer, poll, pollKey, key, status, found, spare>>

Start(s) ==
    /\ At(s, "taken")
    /\ searches' = [searches EXCEPT ![s] = [stage |-> "scanning", rounds |-> MaxRounds, hours |-> 0]]
    /\ Says(s, "running")
    /\ UNCHANGED <<printer, poll, pollKey, key, found, spare>>

\* Mutant: the key is renewed whoever holds it, and the search goes on.
RoundEndsUnasked(s) ==
    /\ At(s, "scanning")
    /\ key' = IF key = NoKey THEN NoKey ELSE [key EXCEPT !.ttl = TTL]
    /\ \E rest \in 0..(searches[s].rounds - 1) :
          searches' = [searches EXCEPT ![s] =
             [stage |-> IF rest = 0 THEN "adding" ELSE "scanning", rounds |-> rest, hours |-> 0]]
    /\ UNCHANGED <<printer, poll, pollKey, status, found, spare>>

\* The end of a round renews the key, if it is still held.
RoundEnds(s) ==
    /\ At(s, "scanning")
    /\ IF key.token = s
       THEN /\ key' = [key EXCEPT !.ttl = TTL]
            /\ \E rest \in 0..(searches[s].rounds - 1) :
                  searches' = [searches EXCEPT ![s] =
                     [stage |-> IF rest = 0 THEN "adding" ELSE "scanning", rounds |-> rest, hours |-> 0]]
       ELSE Moves(s, "over") /\ UNCHANGED key
    /\ UNCHANGED <<printer, poll, pollKey, status, found, spare>>

\* add_results: an address that is registered already is left as it is.
Add(s) ==
    /\ At(s, "adding")
    /\ \E finds \in SUBSET Address : found' = found \cup (finds \ {printer.address})
    /\ Moves(s, "closing")
    /\ UNCHANGED <<printer, poll, pollKey, key, status, spare>>

\* The finally block: the status, then the key.
Concludes(s, how) ==
    /\ IF key.token = s THEN Says(s, how) /\ key' = NoKey ELSE UNCHANGED <<status, key>>
    /\ Moves(s, "over")
    /\ UNCHANGED <<printer, poll, pollKey, found>>

Close(s) ==
    /\ At(s, "closing")
    /\ Concludes(s, "completed")
    /\ UNCHANGED spare

\* An error outside the rounds, which catch their own.
Breaks(s) ==
    /\ At(s, "scanning") \/ At(s, "adding")
    /\ Spend("failures")
    /\ Concludes(s, "failed")

Dies(s) ==
    /\ searches[s].stage \notin {"new", "over"}
    /\ Spend("failures")
    /\ Moves(s, "over")
    /\ UNCHANGED <<printer, poll, pollKey, key, status, found>>

\* What is under way: a round ends within its hour, short steps at once.  The
\* queue may hold a message for as long as it likes.
Urgent(s) ==
    \/ searches[s].stage \in {"asked", "taken", "adding", "closing"}
    \/ At(s, "scanning") /\ searches[s].hours = Round

Hour ==
    /\ \A s \in Search : ~Urgent(s)
    /\ key # NoKey \/ \E s \in Search : At(s, "scanning")
    /\ key' = IF key.ttl <= 1 THEN NoKey ELSE [key EXCEPT !.ttl = @ - 1]
    /\ searches' = [s \in Search |->
                      IF At(s, "scanning") THEN [searches[s] EXCEPT !.hours = @ + 1] ELSE searches[s]]
    /\ UNCHANGED <<printer, poll, pollKey, status, found, spare>>

Works(s) == Send(s) \/ Take(s) \/ Start(s) \/ RoundEnds(s) \/ Add(s) \/ Close(s)
Polls    == PollBegin \/ PollCheck \/ PollSave(TRUE) \/ PollKeyExpires

Next ==
    \/ Polls \/ PollSave(FALSE) \/ PollDies \/ Hour
    \/ \E a \in Addresses : Edit(a)
    \/ \E s \in Search : Enqueue(s) \/ Works(s) \/ Breaks(s) \/ Dies(s)

Spec == Init /\ [][Next]_vars

\* The beat asks for polls every five minutes, workers go on with what they
\* have begun, and time passes.
Fairness ==
    /\ WF_vars(PollBegin) /\ WF_vars(PollCheck) /\ WF_vars(PollSave(TRUE)) /\ WF_vars(PollKeyExpires)
    /\ \A s \in Search : WF_vars(Works(s))
    /\ WF_vars(Hour)

-----------------------------------------------------------------------------
(* Properties.                                                             *)

\* Two searches may scan at once, when one has waited in the queue for most of
\* its two hours; only the one that holds the key goes on to add printers and
\* to close.
AddersHoldKey ==
    \A s \in Search : searches[s].stage \in {"adding", "closing"} => key.token = s

\* The key leaves a search when its hours are over or the search ends: no
\* search takes it from another, neither the finally block, which compares the
\* token, nor enqueue_discovery, which deletes the key without a look when its
\* message is refused.
KeyIsLeft ==
    [][\A s \in Search : key.token = s /\ key'.token # s =>
          key' = NoKey /\ (key.ttl = 1 \/ searches'[s].stage = "over")]_vars

\* discovery_status: a search whose key has gone is shown as interrupted.
UnderWay == status.says \in {"queued", "running"} /\ key # NoKey

\* Whatever dies and whatever expires, no search is shown as under way for
\* good, and another may be asked for.  A poll of the old address may be saved
\* over an edit; the data shown of a printer that answers is its own again in
\* the end, and a worker that died with a poll does not stop later ones.
RegistrySettles ==
    <>[](~UnderWay /\ (printer.address = "none" \/ printer.data = printer.address))
=============================================================================
