--------------------------- MODULE Services_proofs ---------------------------
(***************************************************************************)
(* Theorems about services that share no state.  Printers: the search for  *)
(* printers and its key, for any addresses and searches and every bound on *)
(* rounds, edits and failures; TokenAssumption is what uuid4 gives: no     *)
(* search has for its token the one of a key that is not there.  Accounts, *)
(* Playbooks and Wallpapers, as instances beside it: the last              *)
(* administrator, what a schedule runs and on which PCs, and who gets the  *)
(* image of a group.                                                       *)
(***************************************************************************)
EXTENDS Printers, FiniteSetTheorems, TLAPS

TokenAssumption  == "none" \notin Search
BoundsAssumption == {MaxRounds, MaxEdits, MaxFailures} \subseteq Nat

\* How far a search is.
Progress == [stage : Stages, rounds : 0..MaxRounds, hours : 0..Round]

\* The part of the type that concerns the searches and their key.
SearchesTyped ==
    /\ key = NoKey \/ key \in [token : Search, ttl : 1..TTL]
    /\ searches \in [Search -> Progress]

\* The searches that can do without asking for the key: one that has just got
\* it and one whose last round has renewed it.  Time waits for both.
Sure(s) == searches[s].stage \in {"asked", "adding", "closing"}

HolderInv == \A s \in Search : Sure(s) => key.token = s

-----------------------------------------------------------------------------
(* Lemmas about the operators of the module.                               *)

\* A failure or an edit is spent within the bounds.
LEMMA SpendType ==
    ASSUME PrintersTypeOK, BoundsAssumption, NEW kind \in {"edits", "failures"}, Spend(kind)
    PROVE  spare' \in [edits : 0..MaxEdits, failures : 0..MaxFailures]
  BY SMT DEF Spend, PrintersTypeOK, BoundsAssumption

\* A search that moves changes its own progress only.
LEMMA MovesOne ==
    ASSUME SearchesTyped, NEW s \in Search, NEW stage \in Stages, Moves(s, stage)
    PROVE  /\ searches' \in [Search -> Progress] /\ searches'[s].stage = stage
           /\ \A t \in Search \ {s} : searches'[t] = searches[t]
  <1> DEFINE p == [searches[s] EXCEPT !.stage = stage, !.hours = 0]
  <1>1. searches[s] \in Progress
    BY DEF SearchesTyped
  <1>2. \A r \in Progress : [r EXCEPT !.hours = 0] \in Progress
    BY DEF Progress, Round
  <1>3. p \in Progress /\ p.stage = stage
    <2>1. [searches[s] EXCEPT !.stage = stage] \in Progress
      BY <1>1 DEF Progress
    <2>2. p = [[searches[s] EXCEPT !.stage = stage] EXCEPT !.hours = 0]
      OBVIOUS
    <2>3. p.stage = stage
      BY <1>1 DEF Progress
    <2> QED
      BY <1>2, <2>1, <2>2, <2>3
  <1>4. searches' = [searches EXCEPT ![s] = p]
    BY DEF Moves
  <1> HIDE DEF p
  <1> QED
    BY <1>3, <1>4 DEF SearchesTyped

\* So does one that is given its progress anew.
LEMMA SetsOne ==
    ASSUME SearchesTyped, NEW s \in Search, NEW p \in Progress,
           searches' = [searches EXCEPT ![s] = p]
    PROVE  /\ searches' \in [Search -> Progress] /\ searches'[s] = p
           /\ \A t \in Search \ {s} : searches'[t] = searches[t]
  BY DEF SearchesTyped

-----------------------------------------------------------------------------
(* The key.                                                                *)

\* What a step leaves: typed searches, each sure of its key, and no key taken.
KeyStep ==
    \A s \in Search : key.token = s /\ key'.token # s =>
        key' = NoKey /\ (key.ttl = 1 \/ searches'[s].stage = "over")
KeepsApart == SearchesTyped' /\ HolderInv' /\ KeyStep

\* A step of one search s: it leaves the key alone, renews its own, gives its
\* own up as it ends, or takes one that nobody has.
LEMMA OneMoves ==
    ASSUME SearchesTyped, HolderInv, TokenAssumption, NEW s \in Search,
           searches' \in [Search -> Progress],
           \A t \in Search \ {s} : searches'[t] = searches[t],
           \/ key' = key /\ (Sure(s)' => key.token = s)
           \/ key.token = s /\ key' = [key EXCEPT !.ttl = TTL]
           \/ key.token = s /\ key' = NoKey /\ searches'[s].stage = "over"
           \/ key = NoKey /\ key' = [token |-> s, ttl |-> TTL]
    PROVE  KeepsApart
  <1>1. \A t \in Search : t # NoKey.token
    BY DEF TokenAssumption, NoKey
  <1>2. SearchesTyped'
    <2>1. key' = NoKey \/ key' \in [token : Search, ttl : 1..TTL]
      <3>1. CASE key' = [key EXCEPT !.ttl = TTL] /\ key.token = s
        BY <1>1, <3>1 DEF SearchesTyped, TTL
      <3>2. CASE key' = [token |-> s, ttl |-> TTL]
        BY <3>2 DEF TTL
      <3> QED
        BY <3>1, <3>2 DEF SearchesTyped
    <2> QED
      BY <2>1 DEF SearchesTyped
  <1>3. \A t \in Search \ {s} : Sure(t)' <=> Sure(t)
    BY DEF Sure
  <1>4. CASE key' = key /\ (Sure(s)' => key.token = s)
    BY <1>2, <1>3, <1>4 DEF HolderInv, KeyStep, KeepsApart
  <1>5. CASE key.token = s /\ key' = [key EXCEPT !.ttl = TTL]
    <2>1. key'.token = s
      BY <1>1, <1>5 DEF SearchesTyped
    <2> QED
      BY <1>2, <1>3, <1>5, <2>1 DEF HolderInv, KeyStep, KeepsApart
  <1>6. CASE key.token = s /\ key' = NoKey /\ searches'[s].stage = "over"
    <2>1. ~Sure(s)'
      BY <1>6 DEF Sure
    <2> QED
      BY <1>2, <1>3, <1>6, <2>1 DEF HolderInv, KeyStep, KeepsApart
  <1>7. CASE key = NoKey /\ key' = [token |-> s, ttl |-> TTL]
    BY <1>1, <1>2, <1>3, <1>7 DEF HolderInv, KeyStep, KeepsApart
  <1> QED
    BY <1>4, <1>5, <1>6, <1>7

\* A search is asked for, and its message is sent or refused.
LEMMA EnqueueApart ==
    ASSUME SearchesTyped, HolderInv, TokenAssumption, NEW s \in Search, Enqueue(s)
    PROVE  KeepsApart
  BY OneMoves, MovesOne DEF Enqueue, Stages

\* A refused message takes the key away unseen: nobody else can have it, for
\* the search that asks has it.
LEMMA SendApart ==
    ASSUME SearchesTyped, HolderInv, TokenAssumption, NEW s \in Search, Send(s)
    PROVE  KeepsApart
  <1>1. key.token = s
    BY DEF Send, At, HolderInv, Sure
  <1>2. CASE Moves(s, "queued") /\ key' = key
    BY <1>1, <1>2, OneMoves, MovesOne DEF Stages
  <1>3. CASE Moves(s, "over") /\ key' = NoKey
    BY <1>1, <1>3, OneMoves, MovesOne DEF Stages
  <1> QED
    BY <1>2, <1>3 DEF Send

\* A worker takes the message and starts.
LEMMA TakeApart ==
    ASSUME SearchesTyped, HolderInv, TokenAssumption, NEW s \in Search, Take(s)
    PROVE  KeepsApart
  <1> DEFINE stage == IF key.token = s THEN "taken" ELSE "over"
  <1>1. Moves(s, stage) /\ key' = key
    BY DEF Take
  <1>2. stage \in Stages /\ stage \notin {"asked", "adding", "closing"}
    BY DEF Stages
  <1> HIDE DEF stage
  <1>3. ~Sure(s)' /\ searches' \in [Search -> Progress]
        /\ \A t \in Search \ {s} : searches'[t] = searches[t]
    BY <1>1, <1>2, MovesOne DEF Sure
  <1> QED
    BY <1>1, <1>3, OneMoves

LEMMA StartApart ==
    ASSUME SearchesTyped, HolderInv, TokenAssumption, BoundsAssumption,
           NEW s \in Search, Start(s)
    PROVE  KeepsApart
  <1> DEFINE p == [stage |-> "scanning", rounds |-> MaxRounds, hours |-> 0]
  <1>1. searches' = [searches EXCEPT ![s] = p] /\ key' = key
    BY DEF Start
  <1>2. p \in Progress /\ p.stage = "scanning"
    BY DEF Progress, Stages, Round, BoundsAssumption
  <1> HIDE DEF p
  <1>3. ~Sure(s)' /\ searches' \in [Search -> Progress]
        /\ \A t \in Search \ {s} : searches'[t] = searches[t]
    BY <1>1, <1>2, SetsOne DEF Sure
  <1> QED
    BY <1>1, <1>3, OneMoves

\* Only a search that has found the key its own goes on to add.
LEMMA RoundEndsApart ==
    ASSUME SearchesTyped, HolderInv, TokenAssumption, BoundsAssumption,
           NEW s \in Search, RoundEnds(s)
    PROVE  KeepsApart
  <1>1. CASE key.token = s
    <2>1. PICK rest \in 0..(searches[s].rounds - 1) :
             searches' = [searches EXCEPT ![s] =
                [stage |-> IF rest = 0 THEN "adding" ELSE "scanning", rounds |-> rest, hours |-> 0]]
      BY <1>1 DEF RoundEnds
    <2>2. searches[s] \in Progress /\ searches[s].rounds \in 0..MaxRounds
      BY DEF SearchesTyped, Progress
    <2>3. rest \in 0..MaxRounds
      BY <2>1, <2>2 DEF BoundsAssumption
    <2>4. [stage |-> IF rest = 0 THEN "adding" ELSE "scanning", rounds |-> rest, hours |-> 0] \in Progress
      BY <2>3 DEF Progress, Stages, Round
    <2>5. /\ searches' \in [Search -> Progress]
          /\ \A t \in Search \ {s} : searches'[t] = searches[t]
      BY <2>1, <2>4, SetsOne
    <2>6. key' = [key EXCEPT !.ttl = TTL]
      BY <1>1 DEF RoundEnds
    <2> QED
      BY <1>1, <2>5, <2>6, OneMoves
  <1>2. CASE key.token # s
    <2>1. Moves(s, "over") /\ key' = key
      BY <1>2 DEF RoundEnds
    <2> QED
      BY <2>1, OneMoves, MovesOne DEF Stages, Sure
  <1> QED
    BY <1>1, <1>2

LEMMA AddApart ==
    ASSUME SearchesTyped, HolderInv, TokenAssumption, NEW s \in Search, Add(s)
    PROVE  KeepsApart
  <1>1. key.token = s
    BY DEF Add, At, HolderInv, Sure
  <1> QED
    BY <1>1, OneMoves, MovesOne DEF Add, Stages

\* The finally block compares the token.
LEMMA ConcludesApart ==
    ASSUME SearchesTyped, HolderInv, TokenAssumption, NEW s \in Search, NEW how,
           Concludes(s, how)
    PROVE  KeepsApart
  <1>1. /\ searches' \in [Search -> Progress] /\ searches'[s].stage = "over"
        /\ \A t \in Search \ {s} : searches'[t] = searches[t]
    BY MovesOne DEF Concludes, Stages
  <1>2. ~Sure(s)'
    BY <1>1 DEF Sure
  <1>3. key' = key \/ (key.token = s /\ key' = NoKey)
    BY DEF Concludes
  <1> QED
    BY <1>1, <1>2, <1>3, OneMoves

\* A worker that dies leaves the key to its hours.
LEMMA DiesApart ==
    ASSUME SearchesTyped, HolderInv, TokenAssumption, NEW s \in Search, Dies(s)
    PROVE  KeepsApart
  <1>1. Moves(s, "over") /\ key' = key
    BY DEF Dies
  <1> QED
    BY <1>1, OneMoves, MovesOne DEF Stages, Sure

\* Time takes the key from searches that will ask for it only.
LEMMA HourApart ==
    ASSUME SearchesTyped, HolderInv, TokenAssumption, Hour
    PROVE  KeepsApart
  <1>1. \A s \in Search : /\ searches'[s].stage = searches[s].stage
                          /\ searches'[s] \in Progress
    <2> TAKE s \in Search
    <2>1. searches[s] \in Progress /\ ~Urgent(s)
      BY DEF Hour, SearchesTyped
    <2>2. CASE At(s, "scanning")
      <3>1. searches'[s] = [searches[s] EXCEPT !.hours = @ + 1]
        BY <2>2 DEF Hour
      <3>2. searches[s].hours = 0
        BY <2>1, <2>2 DEF Urgent, Progress, Round
      <3> QED
        BY <2>1, <3>1, <3>2 DEF Progress, Round
    <2>3. CASE ~At(s, "scanning")
      BY <2>1, <2>3 DEF Hour
    <2> QED
      BY <2>2, <2>3
  <1>2. \A s \in Search : ~Sure(s)'
    BY <1>1 DEF Hour, Urgent, Sure
  <1>3. searches' \in [Search -> Progress]
    BY <1>1 DEF Hour
  <1>4. /\ key' = NoKey \/ key' \in [token : Search, ttl : 1..TTL]
        /\ KeyStep
    <2>1. CASE key = NoKey
      <3>1. key' = NoKey
        BY <2>1 DEF Hour, NoKey
      <3> QED
        BY <2>1, <3>1 DEF KeyStep
    <2>2. CASE key \in [token : Search, ttl : 1..TTL] /\ key.ttl <= 1
      <3>1. key' = NoKey /\ key.ttl = 1
        BY <2>2 DEF Hour, TTL
      <3> QED
        BY <3>1 DEF KeyStep
    <2>3. CASE key \in [token : Search, ttl : 1..TTL] /\ ~(key.ttl <= 1)
      <3>1. key' = [key EXCEPT !.ttl = @ - 1]
        BY <2>3 DEF Hour
      <3> QED
        BY <2>3, <3>1 DEF KeyStep, TTL
    <2> QED
      BY <2>1, <2>2, <2>3 DEF SearchesTyped
  <1> QED
    BY <1>2, <1>3, <1>4 DEF KeepsApart, SearchesTyped, HolderInv

-----------------------------------------------------------------------------
(* The rest of the type.                                                   *)

PrinterTyped == printer \in [address : Addresses, data : Addresses,
                             status : {"unknown", "online", "unreachable"}]
PollTyped    == poll \in [stage : {"idle", "asked", "done"}, address : Addresses]
SpareTyped   == spare \in [edits : 0..MaxEdits, failures : 0..MaxFailures]
RestTyped ==
    /\ PrinterTyped /\ PollTyped /\ pollKey \in BOOLEAN
    /\ status.says \in {"never", "queued", "running", "completed", "failed"}
    /\ found \subseteq Address
    /\ SpareTyped

LEMMA TypeParts == PrintersTypeOK <=> RestTyped /\ SearchesTyped
  BY DEF PrintersTypeOK, RestTyped, PrinterTyped, PollTyped, SpareTyped, SearchesTyped, Progress

\* Polls and edits leave the search alone.
PollStep ==
    \/ PollBegin \/ PollCheck \/ PollDies \/ PollKeyExpires
    \/ \E answered \in BOOLEAN : PollSave(answered)
    \/ \E a \in Addresses : Edit(a)

LEMMA PollKeeps ==
    ASSUME RestTyped, BoundsAssumption, PollStep
    PROVE  RestTyped' /\ UNCHANGED <<key, searches>>
  <1> USE DEF RestTyped
  <1>1. ASSUME NEW kind \in {"edits", "failures"}, Spend(kind)
        PROVE  SpareTyped'
    BY <1>1 DEF Spend, SpareTyped, BoundsAssumption
  <1>2. CASE PollBegin
    BY <1>2 DEF PollBegin, PrinterTyped, PollTyped, SpareTyped
  <1>3. CASE PollCheck
    <2>1. PollTyped'
      BY <1>3 DEF PollCheck, PollTyped, NoPoll, Addresses
    <2> QED
      BY <1>3, <2>1 DEF PollCheck, PrinterTyped, SpareTyped
  <1>4. CASE PollDies
    BY <1>1, <1>4 DEF PollDies, PrinterTyped, PollTyped, NoPoll, Addresses
  <1>5. CASE PollKeyExpires
    BY <1>5 DEF PollKeyExpires, PrinterTyped, PollTyped, SpareTyped
  <1>6. ASSUME NEW answered \in BOOLEAN, PollSave(answered)
        PROVE  RestTyped' /\ UNCHANGED <<key, searches>>
    <2>1. SpareTyped'
      BY <1>6 DEF PollSave, SpareTyped, BoundsAssumption
    <2>2. PrinterTyped'
      BY <1>6 DEF PollSave, PrinterTyped, PollTyped
    <2> QED
      BY <1>6, <2>1, <2>2 DEF PollSave, PollTyped, NoPoll, Addresses
  <1>7. ASSUME NEW a \in Addresses, Edit(a)
        PROVE  RestTyped' /\ UNCHANGED <<key, searches>>
    BY <1>1, <1>7 DEF Edit, PrinterTyped, PollTyped, Addresses
  <1> QED
    BY <1>2, <1>3, <1>4, <1>5, <1>6, <1>7 DEF PollStep

\* A search touches the status, what it has found and the failures.
LEMMA SearchKeepsRest ==
    ASSUME RestTyped, BoundsAssumption, NEW s \in Search,
           Enqueue(s) \/ Works(s) \/ Breaks(s) \/ Dies(s)
    PROVE  RestTyped'
  <1>1. UNCHANGED <<printer, poll, pollKey>>
    BY DEF Enqueue, Works, Send, Take, Start, RoundEnds, Add, Close, Breaks, Concludes, Dies
  <1>2. SpareTyped'
    <2>1. spare' = spare \/ Spend("failures")
      BY DEF Enqueue, Works, Send, Take, Start, RoundEnds, Add, Close, Breaks, Dies
    <2> QED
      BY <2>1 DEF Spend, RestTyped, SpareTyped, BoundsAssumption
  <1>3. found' \subseteq Address
    <2>1. found' = found \/ Add(s)
      BY DEF Enqueue, Works, Send, Take, Start, RoundEnds, Close, Breaks, Concludes, Dies
    <2> QED
      BY <2>1 DEF Add, RestTyped
  <1>4. status'.says \in {"never", "queued", "running", "completed", "failed"}
    <2>1. status' = status \/ \E what \in {"queued", "running", "completed", "failed"} : Says(s, what)
      BY DEF Enqueue, Works, Send, Take, Start, RoundEnds, Add, Close, Breaks, Concludes, Dies
    <2> QED
      BY <2>1 DEF Says, RestTyped
  <1> QED
    BY <1>1, <1>2, <1>3, <1>4 DEF RestTyped, PrinterTyped, PollTyped

-----------------------------------------------------------------------------
(* The theorems.                                                           *)

SearchInv == PrintersTypeOK /\ HolderInv

LEMMA InitSearchInv ==
    ASSUME Init, BoundsAssumption
    PROVE  SearchInv
  <1>1. RestTyped
    <2>1. PrinterTyped /\ PollTyped
      BY DEF Init, PrinterTyped, PollTyped, NoPoll, Addresses
    <2>2. SpareTyped
      BY DEF Init, SpareTyped, BoundsAssumption
    <2> QED
      BY <2>1, <2>2 DEF Init, RestTyped
  <1>2. SearchesTyped /\ HolderInv
    BY DEF Init, SearchesTyped, HolderInv, Sure, Progress, Stages, Round, BoundsAssumption
  <1> QED
    BY <1>1, <1>2, TypeParts DEF SearchInv

LEMMA NextSearchInv ==
    ASSUME SearchInv, TokenAssumption, BoundsAssumption, [Next]_vars
    PROVE  SearchInv' /\ KeyStep
  <1>1. RestTyped /\ SearchesTyped /\ HolderInv
    BY TypeParts DEF SearchInv
  <1>2. CASE PollStep \/ UNCHANGED vars
    <2>1. RestTyped' /\ UNCHANGED <<key, searches>>
      BY <1>1, <1>2, PollKeeps DEF vars, RestTyped, PrinterTyped, PollTyped, SpareTyped
    <2>2. SearchesTyped' /\ HolderInv' /\ KeyStep
      BY <1>1, <2>1 DEF SearchesTyped, HolderInv, Sure, KeyStep
    <2> QED
      BY <2>1, <2>2, TypeParts, PTL DEF SearchInv
  <1>3. CASE Hour
    <2>1. RestTyped'
      BY <1>1, <1>3 DEF Hour, RestTyped, PrinterTyped, PollTyped, SpareTyped
    <2> QED
      BY <1>1, <1>3, <2>1, HourApart, TypeParts, PTL DEF SearchInv, KeepsApart
  <1>4. ASSUME NEW s \in Search, Enqueue(s) \/ Works(s) \/ Breaks(s) \/ Dies(s)
        PROVE  SearchInv' /\ KeyStep
    <2>1. RestTyped'
      BY <1>1, <1>4, SearchKeepsRest
    <2>2. KeepsApart
      <3>1. CASE Enqueue(s)
        BY <1>1, <3>1, EnqueueApart
      <3>2. CASE Send(s) \/ Take(s) \/ Start(s)
        BY <1>1, <3>2, SendApart, TakeApart, StartApart
      <3>3. CASE RoundEnds(s) \/ Add(s)
        BY <1>1, <3>3, RoundEndsApart, AddApart
      <3>4. CASE Close(s) \/ Breaks(s)
        BY <1>1, <3>4, ConcludesApart DEF Close, Breaks
      <3>5. CASE Dies(s)
        BY <1>1, <3>5, DiesApart
      <3> QED
        BY <1>4, <3>1, <3>2, <3>3, <3>4, <3>5 DEF Works
    <2> QED
      BY <2>1, <2>2, TypeParts, PTL DEF SearchInv, KeepsApart
  <1> QED
    BY <1>2, <1>3, <1>4 DEF Next, Polls, PollStep

LEMMA SearchInvariant ==
    ASSUME TokenAssumption, BoundsAssumption
    PROVE  Spec => []SearchInv
  <1>1. Init => SearchInv
    BY InitSearchInv
  <1>2. SearchInv /\ [Next]_vars => SearchInv'
    BY NextSearchInv
  <1> QED
    BY <1>1, <1>2, PTL DEF Spec

\* Every variable keeps its type, whatever expires, dies or is edited.
THEOREM PrintersTyped ==
    ASSUME TokenAssumption, BoundsAssumption
    PROVE  Spec => []PrintersTypeOK
  <1>1. SearchInv => PrintersTypeOK
    BY DEF SearchInv
  <1> QED
    BY <1>1, SearchInvariant, PTL

\* Of any number of searches, only the one that holds the key adds printers
\* and closes, although keys expire, messages wait and are refused, and
\* workers die (discover_printers).
THEOREM OnlyHoldersAdd ==
    ASSUME TokenAssumption, BoundsAssumption
    PROVE  Spec => []AddersHoldKey
  <1>1. SearchInv => AddersHoldKey
    BY DEF SearchInv, HolderInv, AddersHoldKey, Sure
  <1> QED
    BY <1>1, SearchInvariant, PTL

\* No search loses its key to another one: not by a refused message, whose
\* handler deletes the key without a look, and not by a search that ends late.
THEOREM KeysAreLeft ==
    ASSUME TokenAssumption, BoundsAssumption
    PROVE  Spec => KeyIsLeft
  <1>1. SearchInv /\ [Next]_vars => [KeyStep]_vars
    BY NextSearchInv
  <1>2. KeyIsLeft <=> [][KeyStep]_vars
    BY PTL DEF KeyIsLeft, KeyStep
  <1> QED
    BY <1>1, <1>2, SearchInvariant, PTL DEF Spec

-----------------------------------------------------------------------------
(***************************************************************************)
(* Accounts: types, and that no role change and no deletion takes the      *)
(* rights of the last administrator, for any number of accounts, of        *)
(* requests in progress and of changes in the directory.                   *)
(***************************************************************************)
CONSTANTS Person, Domain, Request, MaxRequests, MaxChanges

VARIABLES accounts, directory, requests, checks, signedIn, credit

Users == INSTANCE Accounts


(***************************************************************************)
(* What a locked request has counted are administrators to the end: nobody *)
(* else writes to a row it holds.                                          *)
(***************************************************************************)
LockedAreAdmins ==
    \A r \in Request : requests[r].stage = "locked" => requests[r].rows \subseteq Users!Admins

AccountsInv == Users!AccountsTypeOK /\ LockedAreAdmins

-----------------------------------------------------------------------------

\* A bound of the model stays within its range when one unit is spent.
LEMMA CreditTyped ==
    ASSUME MaxRequests \in Nat, MaxChanges \in Nat, Users!AccountsTypeOK,
           NEW kind \in {"requests", "changes"}, Users!Spend(kind)
    PROVE  credit' \in [requests : 0..MaxRequests, changes : 0..MaxChanges]
<1>1. credit[kind] \in Nat /\ credit[kind] > 0
  BY DEF Users!AccountsTypeOK, Users!Spend
<1>2. CASE kind = "requests"
  BY <1>1, <1>2 DEF Users!AccountsTypeOK, Users!Spend
<1>3. CASE kind = "changes"
  BY <1>1, <1>3 DEF Users!AccountsTypeOK, Users!Spend
<1> QED BY <1>2, <1>3

\* Rows and requests that are written are well formed.
LEMMA NoneTyped ==
    ASSUME Person # {}
    PROVE  /\ Users!NoAccount \in Users!Account
           /\ Users!NoRequest \in [stage : {"idle", "begun", "waiting", "locked"}, actor : Person,
                             target : Person, role : Users!Roles \cup {"delete"}, rows : SUBSET Person]
           /\ Users!NoSync \in [stage : {"idle", "asked"}, read : Users!Account,
                          group : Users!Roles \cup {"none"}]
<1>1. Users!NoAccount \in Users!Account
  BY DEF Users!NoAccount, Users!Account, Users!Roles
<1>2. (CHOOSE u \in Person : TRUE) \in Person
  OBVIOUS
<1> QED BY <1>1, <1>2 DEF Users!NoRequest, Users!NoSync, Users!Roles

\* Every account is well formed in the beginning and the bounds are whole.
LEMMA InitAccounts ==
    ASSUME Person # {}, MaxRequests \in Nat, MaxChanges \in Nat, Users!Init
    PROVE  AccountsInv
<1>1. Users!AccountsTypeOK
  BY NoneTyped DEF Users!Init, Users!AccountsTypeOK
<1>2. \A r \in Request : requests[r].stage # "locked"
  BY DEF Users!Init, Users!NoRequest
<1> QED BY <1>1, <1>2 DEF AccountsInv, LockedAreAdmins

\* A sync writes a well-formed row.
LEMMA SyncedTyped ==
    ASSUME Users!AccountsTypeOK, NEW u \in Person, checks[u].group # "none"
    PROVE  Users!Synced(u) \in Users!Account
<1> DEFINE s == checks[u]
<1>1. /\ s.read \in Users!Account /\ s.group \in Users!Roles
      /\ accounts[u] \in Users!Account
  BY DEF Users!AccountsTypeOK, Users!Roles
<1>2. Users!EffectiveRole(s) \in Users!Roles
  BY <1>1 DEF Users!EffectiveRole, Users!Account
<1>3. /\ Users!OrmWrite(s.read.role, Users!EffectiveRole(s), accounts[u].role) \in Users!Roles
      /\ Users!OrmWrite(s.read.ldapRole, s.group, accounts[u].ldapRole) \in Users!Roles \cup {"none"}
  BY <1>1, <1>2 DEF Users!OrmWrite, Users!Account
<1>4. CASE ~s.read.exists
  BY <1>1, <1>4 DEF Users!Synced, Users!Account
<1>5. CASE s.read.exists
  <2>1. Users!Synced(u) = [accounts[u] EXCEPT
            !.role = Users!OrmWrite(s.read.role, Users!EffectiveRole(s), @),
            !.ldapRole = Users!OrmWrite(s.read.ldapRole, s.group, @)]
    BY <1>5 DEF Users!Synced
  <2> QED BY <2>1, <1>1, <1>3 DEF Users!Account
<1>6. s.read.exists \in BOOLEAN
  BY <1>1 DEF Users!Account
<1> QED BY <1>4, <1>5, <1>6

\* A role set by hand leaves a well-formed row of an existing account.
LEMMA ManualTyped ==
    ASSUME Users!AccountsTypeOK, NEW u \in Person, NEW role \in Users!Roles
    PROVE  /\ Users!Manual(u, role) \in Users!Account
           /\ Users!Manual(u, role).role = role
           /\ Users!Manual(u, role).exists = accounts[u].exists
<1>1. accounts[u] \in Users!Account
  BY DEF Users!AccountsTypeOK
<1> QED BY <1>1 DEF Users!Manual, Users!Account

RequestRow ==
    [stage : {"idle", "begun", "waiting", "locked"}, actor : Person, target : Person,
     role : Users!Roles \cup {"delete"}, rows : SUBSET Person]

\* A request that moves on with the rows it has seen stays well formed.
LEMMA MovedTyped ==
    ASSUME Users!AccountsTypeOK, NEW r \in Request, NEW rows \in SUBSET Person,
           NEW stage \in {"idle", "begun", "waiting", "locked"},
           requests' = [requests EXCEPT ![r].stage = stage, ![r].rows = rows]
    PROVE  requests' \in [Request -> RequestRow]
<1>1. requests \in [Request -> RequestRow]
  BY DEF Users!AccountsTypeOK, RequestRow
<1> DEFINE new == [requests[r] EXCEPT !.stage = stage, !.rows = rows]
<1>2. new \in RequestRow
  BY <1>1 DEF RequestRow
<1>3. requests' = [requests EXCEPT ![r] = new]
  BY <1>1
<1> HIDE DEF new
<1> QED BY <1>1, <1>2, <1>3

-----------------------------------------------------------------------------

\* Every step keeps the accounts, requests and checks well formed.
LEMMA AccountsStepTyped ==
    ASSUME Person # {}, MaxRequests \in Nat, MaxChanges \in Nat,
           Users!AccountsTypeOK, [Users!Next]_(Users!vars)
    PROVE  Users!AccountsTypeOK'
<1> USE DEF Users!AccountsTypeOK
<1>1. ASSUME NEW u \in Person, Users!Register(u)
      PROVE  Users!AccountsTypeOK'
  <2>1. [Users!NoAccount EXCEPT !.exists = TRUE, !.role = "admin"] \in Users!Account
    BY DEF Users!NoAccount, Users!Account, Users!Roles
  <2> QED BY <1>1, <2>1 DEF Users!Register
<1>2. ASSUME NEW u \in Person, NEW role \in Users!Roles, Users!Create(u, role)
      PROVE  Users!AccountsTypeOK'
  <2>1. [Users!NoAccount EXCEPT !.exists = TRUE, !.role = role] \in Users!Account
    BY DEF Users!NoAccount, Users!Account
  <2> QED BY <1>2, <2>1 DEF Users!Create
<1>3. ASSUME NEW r \in Request, NEW actor \in Person, NEW target \in Person,
             NEW role \in Users!Roles \cup {"delete"}, Users!Begin(r, actor, target, role)
      PROVE  Users!AccountsTypeOK'
  <2>1. credit' \in [requests : 0..MaxRequests, changes : 0..MaxChanges]
    BY <1>3, CreditTyped DEF Users!Begin
  <2> QED BY <1>3, <2>1 DEF Users!Begin
<1>4. ASSUME NEW r \in Request, Users!Count(r)
      PROVE  Users!AccountsTypeOK'
  <2>1. Users!Admins \in SUBSET Person
    BY DEF Users!Admins
  <2>2. requests' \in [Request -> RequestRow]
    BY <1>4, <2>1, MovedTyped DEF Users!Count
  <2> QED BY <1>4, <2>2 DEF Users!Count, RequestRow
<1>5. ASSUME NEW r \in Request, Users!Lock(r)
      PROVE  Users!AccountsTypeOK'
  <2> DEFINE kept == requests[r].rows \cap Users!Admins
  <2>1. kept \in SUBSET Person
    BY DEF Users!Admins
  <2>2. requests' = [requests EXCEPT ![r].stage = "locked", ![r].rows = kept]
    BY <1>5 DEF Users!Lock
  <2> HIDE DEF kept
  <2>3. requests' \in [Request -> RequestRow]
    BY <2>1, <2>2, MovedTyped
  <2> QED BY <1>5, <2>3 DEF Users!Lock, RequestRow
<1>6. ASSUME NEW r \in Request, Users!Commit(r)
      PROVE  Users!AccountsTypeOK'
  <2>1. requests[r].target \in Person
    OBVIOUS
  <2>2. requests[r].role # "delete" =>
            Users!Manual(requests[r].target, requests[r].role) \in Users!Account
    BY <2>1, ManualTyped
  <2>3. accounts' \in [Person -> Users!Account]
    BY <1>6, <2>2, NoneTyped DEF Users!Commit
  <2> QED BY <1>6, <2>3, NoneTyped DEF Users!Commit
<1>7. ASSUME NEW u \in Person, Users!Regroup(u)
      PROVE  Users!AccountsTypeOK'
  <2>1. credit' \in [requests : 0..MaxRequests, changes : 0..MaxChanges]
    BY <1>7, CreditTyped DEF Users!Regroup
  <2> QED BY <1>7, <2>1 DEF Users!Regroup
<1>8. ASSUME NEW u \in Person, Users!AskDirectory(u)
      PROVE  Users!AccountsTypeOK'
  BY <1>8 DEF Users!AskDirectory
<1>9. ASSUME NEW u \in Person, Users!Sync(u)
      PROVE  Users!AccountsTypeOK'
  <2>1. checks[u].group # "none" => Users!Synced(u) \in Users!Account
    BY SyncedTyped
  <2>2. CASE UNCHANGED accounts
    BY <1>9, <2>2, NoneTyped DEF Users!Sync
  <2>3. CASE accounts' = [accounts EXCEPT ![u] = Users!Synced(u)] /\ checks[u].group # "none"
    <3>1. accounts' \in [Person -> Users!Account]
      BY <2>1, <2>3
    <3>2. checks' \in [Person -> [stage : {"idle", "asked"}, read : Users!Account,
                                  group : Users!Roles \cup {"none"}]]
      BY <1>9, NoneTyped DEF Users!Sync
    <3>3. signedIn' \in SUBSET Person /\ UNCHANGED <<directory, requests, credit>>
      BY <1>9 DEF Users!Sync
    <3> QED BY <3>1, <3>2, <3>3
  <2> QED BY <1>9, <2>2, <2>3 DEF Users!Sync
<1>10. CASE UNCHANGED Users!vars
  <2>1. UNCHANGED <<accounts, directory, requests, checks, signedIn, credit>>
    BY <1>10 DEF Users!vars
  <2> QED
    BY <2>1
<1> QED BY <1>1, <1>2, <1>3, <1>4, <1>5, <1>6, <1>7, <1>8, <1>9, <1>10 DEF Users!Next, Users!Step

\* A row that no request holds may be written without disturbing what the
\* locked requests have counted.
LEMMA FreeRowWritten ==
    ASSUME AccountsInv, NEW u \in Person, NEW row, ~Users!Locked(u), UNCHANGED requests,
           accounts' = [accounts EXCEPT ![u] = row]
    PROVE  LockedAreAdmins'
<1> SUFFICES ASSUME NEW r \in Request, requests[r].stage = "locked", NEW v \in requests[r].rows
             PROVE  v \in Users!Admins'
  BY DEF LockedAreAdmins
<1>1. v \in Users!Admins /\ v # u
  BY DEF AccountsInv, LockedAreAdmins, Users!Locked
<1> QED BY <1>1 DEF Users!Admins, Users!IsAdmin, AccountsInv, Users!AccountsTypeOK

\* No step takes an administrator out of those a locked request has counted.
LEMMA LockedStep ==
    ASSUME AccountsInv, [Users!Next]_(Users!vars)
    PROVE  LockedAreAdmins'
<1>1. ASSUME NEW u \in Person, ~accounts[u].exists
      PROVE  ~Users!Locked(u)
  BY <1>1 DEF AccountsInv, LockedAreAdmins, Users!Locked, Users!Admins, Users!IsAdmin
<1>2. ASSUME NEW u \in Person, Users!Register(u)
      PROVE  LockedAreAdmins'
  BY <1>1, <1>2, FreeRowWritten DEF Users!Register
<1>3. ASSUME NEW u \in Person, NEW role \in Users!Roles, Users!Create(u, role)
      PROVE  LockedAreAdmins'
  BY <1>1, <1>3, FreeRowWritten DEF Users!Create
<1>4. ASSUME NEW r \in Request, NEW actor \in Person, NEW target \in Person,
             NEW role \in Users!Roles \cup {"delete"}, Users!Begin(r, actor, target, role)
      PROVE  LockedAreAdmins'
  BY <1>4 DEF Users!Begin, AccountsInv, Users!AccountsTypeOK, LockedAreAdmins, Users!Admins, Users!IsAdmin
<1>5. ASSUME NEW r \in Request, Users!Count(r)
      PROVE  LockedAreAdmins'
  BY <1>5 DEF Users!Count, AccountsInv, Users!AccountsTypeOK, LockedAreAdmins, Users!Admins, Users!IsAdmin
<1>6. ASSUME NEW r \in Request, Users!Lock(r)
      PROVE  LockedAreAdmins'
  BY <1>6 DEF Users!Lock, AccountsInv, Users!AccountsTypeOK, LockedAreAdmins, Users!Admins, Users!IsAdmin
<1>7. ASSUME NEW r \in Request, Users!Commit(r)
      PROVE  LockedAreAdmins'
  <2> SUFFICES ASSUME NEW q \in Request, requests'[q].stage = "locked",
                      NEW v \in requests'[q].rows
               PROVE  v \in Users!Admins'
    BY DEF LockedAreAdmins
  <2>1. q # r /\ requests'[q] = requests[q]
    BY <1>7 DEF Users!Commit, Users!NoRequest, AccountsInv, Users!AccountsTypeOK
  <2>2. v \in Users!Admins /\ v # requests[r].target
    BY <1>7, <2>1 DEF Users!Commit, AccountsInv, LockedAreAdmins
  <2> QED BY <1>7, <2>2 DEF Users!Commit, Users!Admins, Users!IsAdmin, AccountsInv, Users!AccountsTypeOK
<1>8. ASSUME NEW u \in Person, Users!Regroup(u) \/ Users!AskDirectory(u)
      PROVE  LockedAreAdmins'
  BY <1>8 DEF Users!Regroup, Users!AskDirectory, AccountsInv, LockedAreAdmins, Users!Admins, Users!IsAdmin
<1>9. ASSUME NEW u \in Person, Users!Sync(u)
      PROVE  LockedAreAdmins'
  <2>1. CASE UNCHANGED accounts
    BY <1>9, <2>1 DEF Users!Sync, AccountsInv, LockedAreAdmins, Users!Admins, Users!IsAdmin
  <2>2. CASE accounts' = [accounts EXCEPT ![u] = Users!Synced(u)]
    BY <1>9, <2>2, FreeRowWritten DEF Users!Sync
  <2> QED BY <1>9, <2>1, <2>2 DEF Users!Sync
<1>10. CASE UNCHANGED Users!vars
  <2>1. UNCHANGED <<accounts, directory, requests, checks, signedIn, credit>>
    BY <1>10 DEF Users!vars
  <2> QED
    BY <2>1 DEF AccountsInv, LockedAreAdmins, Users!Admins, Users!IsAdmin
<1> QED BY <1>2, <1>3, <1>4, <1>5, <1>6, <1>7, <1>8, <1>9, <1>10 DEF Users!Next, Users!Step

\* The end of a request leaves an administrator: the target is not the only
\* one it has counted, or loses nothing.
LEMMA CommitKeepsOne ==
    ASSUME IsFiniteSet(Person), AccountsInv, NEW r \in Request, Users!Commit(r), Users!Admins # {}
    PROVE  Users!Admins' # {}
<1> DEFINE target == requests[r].target
           rows == requests[r].rows
<1>1. /\ accounts \in [Person -> Users!Account] /\ target \in Person
      /\ rows \subseteq Users!Admins /\ rows \subseteq Person
      /\ requests[r].role \in Users!Roles \cup {"delete"}
  BY DEF AccountsInv, Users!AccountsTypeOK, LockedAreAdmins, Users!Commit
<1>2. CASE ~Users!Allowed(r)
  BY <1>2 DEF Users!Commit, Users!Admins, Users!IsAdmin
<1>3. ASSUME Users!Allowed(r), NEW v \in Users!Admins, v # target
      PROVE  Users!Admins' # {}
  <2>1. v \in Person /\ accounts'[v] = accounts[v]
    BY <1>1, <1>3 DEF Users!Commit, Users!Admins
  <2>2. v \in Users!Admins'
    BY <1>3, <2>1 DEF Users!Admins, Users!IsAdmin
  <2> QED BY <2>2
<1>4. CASE Users!Allowed(r) /\ ~Users!IsAdmin(target)
  BY <1>3, <1>4 DEF Users!Admins
<1>5. CASE Users!Allowed(r) /\ requests[r].role = "admin"
  <2>1. /\ Users!Manual(target, "admin").role = "admin"
        /\ Users!Manual(target, "admin").exists
    BY <1>1, <1>5, ManualTyped DEF AccountsInv, Users!Allowed, Users!Roles
  <2>2. accounts'[target] = Users!Manual(target, "admin")
    BY <1>1, <1>5 DEF Users!Commit
  <2>3. target \in Users!Admins'
    BY <1>1, <2>1, <2>2 DEF Users!Admins, Users!IsAdmin
  <2> QED BY <2>3
<1>6. CASE Users!Allowed(r) /\ requests[r].role # "admin" /\ Users!IsAdmin(target)
  <2>1. Cardinality(rows) > 1
    BY <1>6 DEF Users!Allowed, Users!TakesAdmin, Users!Cardinality, Cardinality
  <2>2. IsFiniteSet({target}) /\ Cardinality({target}) = 1
    BY FS_Singleton
  <2>3. IsFiniteSet(rows)
    BY <1>1, FS_Subset
  <2>4. ~(rows \subseteq {target})
    <3>1. ASSUME rows \subseteq {target}
          PROVE  Cardinality(rows) <= 1
      BY <2>2, <3>1, FS_Subset
    <3>2. Cardinality(rows) \in Nat
      BY <2>3, FS_CardinalityType
    <3> QED BY <2>1, <3>1, <3>2
  <2>5. PICK v \in rows : v # target
    BY <2>4
  <2> QED BY <1>1, <1>3, <1>6, <2>5
<1> QED BY <1>2, <1>4, <1>5, <1>6

\* Only the commit of a request ends it, so only a commit counts.
LEMMA StepKeepsOne ==
    ASSUME IsFiniteSet(Person), AccountsInv, [Users!Next]_(Users!vars),
           NEW r \in Request, requests[r].stage = "locked", requests'[r].stage = "idle",
           Users!Admins # {}
    PROVE  Users!Admins' # {}
<1>1. CASE requests' = requests
  BY <1>1
<1>2. CASE accounts' = accounts
  BY <1>2 DEF Users!Admins, Users!IsAdmin
<1>3. ASSUME NEW q \in Request, Users!Commit(q)
      PROVE  Users!Admins' # {}
  BY <1>3, CommitKeepsOne
<1>4. \/ UNCHANGED requests \/ UNCHANGED accounts \/ \E q \in Request : Users!Commit(q)
  BY DEF Users!Next, Users!Step, Users!vars, Users!Register, Users!Create, Users!Begin,
       Users!Count, Users!Lock, Users!Regroup, Users!AskDirectory, Users!Sync
<1> QED BY <1>1, <1>2, <1>3, <1>4

-----------------------------------------------------------------------------

\* The invariant holds for every set of accounts, every number of requests
\* in progress and every bound.
THEOREM AccountsInvariant ==
    ASSUME Person # {}, MaxRequests \in Nat, MaxChanges \in Nat
    PROVE  Users!Spec => []AccountsInv
<1>1. Users!Init => AccountsInv
  BY InitAccounts
<1>2. AccountsInv /\ [Users!Next]_(Users!vars) => AccountsInv'
  BY AccountsStepTyped, LockedStep DEF AccountsInv
<1> QED BY <1>1, <1>2, PTL DEF Users!Spec

\* Accounts, requests and checks stay well formed (models/user.py and the
\* requests of routers/users.py).
THEOREM AccountsTyped ==
    ASSUME Person # {}, MaxRequests \in Nat, MaxChanges \in Nat
    PROVE  Users!Spec => []Users!AccountsTypeOK
<1>1. AccountsInv => Users!AccountsTypeOK
  BY DEF AccountsInv
<1> QED BY <1>1, AccountsInvariant, PTL

\* No role change and no deletion takes the rights of the last administrator,
\* whatever the others do at the same time: the rows that were counted are
\* locked, and a sync with the directory waits for them
\* (validate_role_change and validate_user_delete).
THEOREM LastAdminStays ==
    ASSUME IsFiniteSet(Person), Person # {}, MaxRequests \in Nat, MaxChanges \in Nat
    PROVE  Users!Spec => Users!KeepsAnAdmin
<1>1. AccountsInv /\ [Users!Next]_(Users!vars)
        => [ (\E r \in Request : requests[r].stage = "locked" /\ requests'[r].stage = "idle")
               /\ Users!Admins # {}
                 => Users!Admins' # {} ]_(Users!vars)
  BY StepKeepsOne
<1> QED BY <1>1, AccountsInvariant, PTL DEF Users!Spec, Users!KeepsAnAdmin

-----------------------------------------------------------------------------
(***************************************************************************)
(* Playbooks: what a schedule runs, and on which PCs, for any files,       *)
(* schedules, targets and PCs and every bound on edits and changes.        *)
(***************************************************************************)
CONSTANTS
    Name, Schedule, PC, Target, Editor,
    MaxSaves, \* edits and deletions of playbooks
    MaxPlans  \* schedules created or changed

VARIABLES playbooks, schedules, pcs, members, edits, tasks, astray, bounds

Plays == INSTANCE Playbooks WITH MaxEdits <- MaxSaves, MaxChanges <- MaxPlans

PlaysBounds == MaxSaves \in Nat /\ MaxPlans \in Nat

TaskRecord ==
    [stage : {"queued", "running", "success", "failed"}, name : Name, hosts : SUBSET PC,
     reached : SUBSET PC]
SaveRecord ==
    [stage : {"checked", "written", "unlinked"}, path : Name, original : Name \cup {"none"}]
MoveRecord == [stage : {"moving"}, path : Name, rows : SUBSET Schedule]
EditRecord ==
    {Plays!NoEdit} \cup SaveRecord \cup MoveRecord \cup [stage : {"unused"}, path : Name]

FilesTyped ==
    /\ playbooks \subseteq Name /\ astray \subseteq Schedule
    /\ schedules \in [Schedule -> Plays!Rows \cup {Plays!NoRow}]
    /\ edits \in [Editor -> EditRecord]
    /\ bounds \in [edits : 0..MaxSaves, changes : 0..MaxPlans]
FleetTyped == pcs \subseteq PC /\ members \in [Target -> SUBSET PC]
RunsTyped  == tasks \in [Schedule -> {Plays!NoTask} \cup TaskRecord]

PlaysTyped == FilesTyped /\ FleetTyped /\ RunsTyped

PlaysInv == PlaysTyped /\ Plays!OnlyTargets

\* One administrator edits at a time.
OneEditor == \A e, f \in Editor : e = f

\* A save that moves schedules has its new file in place.
MovesHaveFiles ==
    \A e \in Editor :
        /\ edits[e].stage \in {"written", "unlinked"} =>
              edits[e].path \in playbooks /\ Plays!Renames(edits[e])
        /\ edits[e].stage = "moving" => edits[e].path \in playbooks

LEMMA PlanSpent ==
    ASSUME PlaysBounds, FilesTyped, NEW kind \in {"edits", "changes"}, Plays!Spend(kind)
    PROVE  bounds' \in [edits : 0..MaxSaves, changes : 0..MaxPlans]
  BY DEF PlaysBounds, FilesTyped, Plays!Spend

\* A step of an edit knows of which kind the edit is.
LEMMA EditKinds ==
    ASSUME FilesTyped, NEW e \in Editor
    PROVE  /\ edits[e].stage \in {"checked", "written", "unlinked"} => edits[e] \in SaveRecord
           /\ edits[e].stage = "unused" => edits[e].path \in Name
           /\ edits[e].stage = "moving" => edits[e] \in MoveRecord
           /\ \A r \in SaveRecord, stage \in {"written", "unlinked"} :
                 /\ [r EXCEPT !.stage = stage] \in SaveRecord
                 /\ [r EXCEPT !.stage = stage].path = r.path
                 /\ [r EXCEPT !.stage = stage].original = r.original
                 /\ [r EXCEPT !.stage = stage].stage = stage
  <1>1. edits[e] \in EditRecord
    BY DEF FilesTyped
  <1>2. edits[e] = Plays!NoEdit => edits[e].stage = "idle"
    BY DEF Plays!NoEdit
  <1>3. edits[e] \in [stage : {"unused"}, path : Name] => edits[e].stage = "unused" /\ edits[e].path \in Name
    OBVIOUS
  <1>4. edits[e] \in SaveRecord => edits[e].stage \in {"checked", "written", "unlinked"}
    BY DEF SaveRecord
  <1>6. edits[e] \in MoveRecord => edits[e].stage = "moving"
    BY DEF MoveRecord
  <1>5. ASSUME NEW r \in SaveRecord, NEW stage \in {"written", "unlinked"}
        PROVE  /\ [r EXCEPT !.stage = stage] \in SaveRecord
               /\ [r EXCEPT !.stage = stage].path = r.path
               /\ [r EXCEPT !.stage = stage].original = r.original
               /\ [r EXCEPT !.stage = stage].stage = stage
    BY DEF SaveRecord
  <1> QED
    BY <1>1, <1>2, <1>3, <1>4, <1>5, <1>6 DEF EditRecord

-----------------------------------------------------------------------------
(* The editor.                                                             *)

EditStep(e) ==
    \/ \E path \in Name : Plays!DeleteBegin(e, path)
    \/ \E path \in Name, original \in Name \cup {"none"} : Plays!SaveBegin(e, path, original)
    \/ Plays!SyntaxError(e) \/ Plays!SaveWrite(e) \/ Plays!SaveUnlink(e)
    \/ Plays!SaveSelect(e) \/ Plays!SaveSchedules(e) \/ Plays!DeleteUnlink(e)

\* What a step of the editor makes of its edit, of the files and of the
\* schedules.
LEMMA EditStepTyped ==
    ASSUME PlaysBounds, FilesTyped, NEW e \in Editor, EditStep(e)
    PROVE  FilesTyped' /\ UNCHANGED <<pcs, members, tasks>>
  <1> USE EditKinds
  <1>1. UNCHANGED <<pcs, members, tasks>>
    BY DEF EditStep, Plays!DeleteBegin, Plays!SaveBegin, Plays!SyntaxError, Plays!SaveWrite,
       Plays!SaveUnlink, Plays!SaveSelect, Plays!SaveSchedules, Plays!DeleteUnlink
  <1>2. ASSUME NEW next \in EditRecord, edits' = [edits EXCEPT ![e] = next]
        PROVE  edits' \in [Editor -> EditRecord]
    BY <1>2 DEF FilesTyped
  <1>3. Plays!NoEdit \in EditRecord /\ SaveRecord \subseteq EditRecord
    BY DEF EditRecord
  <1>4. ASSUME NEW path \in Name, Plays!DeleteBegin(e, path)
        PROVE  FilesTyped'
    <2>1. [stage |-> "unused", path |-> path] \in EditRecord
      BY DEF EditRecord
    <2> QED
      BY <1>2, <1>4, <2>1, PlanSpent DEF Plays!DeleteBegin, FilesTyped
  <1>5. ASSUME NEW path \in Name, NEW original \in Name \cup {"none"},
               Plays!SaveBegin(e, path, original)
        PROVE  FilesTyped'
    <2>1. [stage |-> "checked", path |-> path, original |-> original] \in EditRecord
      BY <1>3 DEF SaveRecord
    <2> QED
      BY <1>2, <1>5, <2>1, PlanSpent DEF Plays!SaveBegin, FilesTyped
  <1>6. CASE Plays!SyntaxError(e)
    BY <1>2, <1>3, <1>6 DEF Plays!SyntaxError, FilesTyped
  <1>7. CASE Plays!SaveWrite(e)
    <2>1. edits[e] \in SaveRecord /\ edits[e].path \in Name
      BY <1>7 DEF Plays!SaveWrite, SaveRecord
    <2>2. [edits[e] EXCEPT !.stage = "written"] \in EditRecord
      BY <1>3, <2>1
    <2>3. edits' \in [Editor -> EditRecord]
      BY <1>2, <1>3, <1>7, <2>2 DEF Plays!SaveWrite
    <2> QED
      BY <1>7, <2>1, <2>3 DEF Plays!SaveWrite, FilesTyped
  <1>8. CASE Plays!SaveUnlink(e)
    <2>1. edits[e] \in SaveRecord
      BY <1>8 DEF Plays!SaveUnlink
    <2>2. [edits[e] EXCEPT !.stage = "unlinked"] \in EditRecord
      BY <1>3, <2>1
    <2>3. edits' \in [Editor -> EditRecord]
      BY <1>2, <1>3, <1>8, <2>2 DEF Plays!SaveUnlink
    <2> QED
      BY <1>8, <2>3 DEF Plays!SaveUnlink, FilesTyped
  <1>9. CASE Plays!SaveSchedules(e)
    <2>1. edits[e] \in MoveRecord
      BY <1>9 DEF Plays!SaveSchedules
    <2>2. edits[e].path \in Name
      BY <2>1 DEF MoveRecord
    <2>3. ASSUME NEW row \in Plays!Rows \cup {Plays!NoRow}
          PROVE  [row EXCEPT !.name = edits[e].path] \in Plays!Rows
      <3> DEFINE new == edits[e].path
      <3>1. new \in Name
        BY <2>2
      <3> HIDE DEF new
      <3>2. CASE row \in Plays!Rows
        <4>1. [row EXCEPT !.name = new] \in Plays!Rows
          BY <3>1, <3>2 DEF Plays!Rows
        <4> QED
          BY <4>1 DEF new
      <3>3. CASE row = Plays!NoRow
        <4>1. row \in [name : {"none"}, targets : SUBSET Target, direct : SUBSET PC,
                       enabled : BOOLEAN]
          BY <3>3 DEF Plays!NoRow
        <4>2. [row EXCEPT !.name = new] \in Plays!Rows
          BY <3>1, <4>1 DEF Plays!Rows
        <4> QED
          BY <4>2 DEF new
      <3> QED
        BY <3>2, <3>3
    <2>4. schedules' \in [Schedule -> Plays!Rows \cup {Plays!NoRow}]
      BY <1>9, <2>3 DEF Plays!SaveSchedules, FilesTyped
    <2>5. edits' \in [Editor -> EditRecord]
      BY <1>2, <1>3, <1>9 DEF Plays!SaveSchedules
    <2>6. astray' \subseteq Schedule
      BY <1>9, <2>1 DEF Plays!SaveSchedules, FilesTyped, MoveRecord
    <2> QED
      BY <1>9, <2>4, <2>5, <2>6 DEF Plays!SaveSchedules, FilesTyped
  <1>10. CASE Plays!DeleteUnlink(e)
    <2>1. edits[e].path \in Name
      BY <1>10 DEF Plays!DeleteUnlink
    <2>2. edits' \in [Editor -> EditRecord]
      BY <1>2, <1>3, <1>10 DEF Plays!DeleteUnlink
    <2> QED
      BY <1>10, <2>1, <2>2 DEF Plays!DeleteUnlink, FilesTyped
  <1>11. CASE Plays!SaveSelect(e)
    <2>1. edits[e] \in SaveRecord
      BY <1>11 DEF Plays!SaveSelect
    <2> DEFINE rows == {s \in Schedule : schedules[s].name = edits[e].original}
    <2>2. edits' = [edits EXCEPT ![e] = [stage |-> "moving", path |-> edits[e].path, rows |-> rows]]
      BY <1>11 DEF Plays!SaveSelect
    <2>3. rows \in SUBSET Schedule /\ edits[e].path \in Name
      BY <2>1 DEF SaveRecord
    <2> HIDE DEF rows
    <2>4. [stage |-> "moving", path |-> edits[e].path, rows |-> rows] \in EditRecord
      BY <2>3 DEF MoveRecord, EditRecord
    <2>5. edits' \in [Editor -> EditRecord]
      BY <1>2, <2>2, <2>4
    <2> QED
      BY <1>11, <2>5 DEF Plays!SaveSelect, FilesTyped
  <1> QED
    BY <1>1, <1>4, <1>5, <1>6, <1>7, <1>8, <1>9, <1>10, <1>11 DEF EditStep

\* A save has its new file in place from the write on, for nobody else edits.
LEMMA EditKeepsFiles ==
    ASSUME FilesTyped, FilesTyped', OneEditor, MovesHaveFiles, NEW e \in Editor, EditStep(e)
    PROVE  MovesHaveFiles'
  <1> USE EditKinds
  <1>1. Editor = {e}
    BY DEF OneEditor
  <1> SUFFICES ASSUME edits'[e].stage \in {"written", "unlinked", "moving"}
               PROVE  /\ edits'[e].path \in playbooks'
                      /\ edits'[e].stage # "moving" => Plays!Renames(edits'[e])
    BY <1>1 DEF MovesHaveFiles, Plays!Renames
  <1>2. \A next : edits' = [edits EXCEPT ![e] = next] => edits'[e] = next
    BY DEF FilesTyped
  <1>3. Plays!NoEdit.stage = "idle"
    BY DEF Plays!NoEdit
  <1>4. CASE \E path \in Name : Plays!DeleteBegin(e, path)
    <2>1. PICK path \in Name : Plays!DeleteBegin(e, path)
      BY <1>4
    <2>2. edits'[e] = [stage |-> "unused", path |-> path]
      BY <1>2, <2>1 DEF Plays!DeleteBegin
    <2> QED
      BY <2>2
  <1>5. CASE \E path \in Name, original \in Name \cup {"none"} : Plays!SaveBegin(e, path, original)
    <2>1. PICK path \in Name, original \in Name \cup {"none"} :
            Plays!SaveBegin(e, path, original)
      BY <1>5
    <2>2. edits'[e] = [stage |-> "checked", path |-> path, original |-> original]
      BY <1>2, <2>1 DEF Plays!SaveBegin
    <2> QED
      BY <2>2
  <1>6. CASE Plays!SyntaxError(e) \/ Plays!SaveSchedules(e) \/ Plays!DeleteUnlink(e)
    <2>1. edits'[e].stage = "idle"
      BY <1>2, <1>3, <1>6 DEF Plays!SyntaxError, Plays!SaveSchedules, Plays!DeleteUnlink
    <2> QED
      BY <2>1
  <1>7. CASE Plays!SaveWrite(e)
    <2>1. edits[e] \in SaveRecord
      BY <1>7 DEF Plays!SaveWrite
    <2>2. Plays!Renames(edits[e]) /\ edits'[e] = [edits[e] EXCEPT !.stage = "written"]
      BY <1>2, <1>3, <1>7 DEF Plays!SaveWrite
    <2>3. edits'[e].path = edits[e].path /\ edits'[e].original = edits[e].original
      BY <2>1, <2>2
    <2> QED
      BY <1>7, <2>2, <2>3 DEF Plays!SaveWrite, Plays!Renames
  <1>8. CASE Plays!SaveUnlink(e)
    <2>1. edits[e] \in SaveRecord /\ edits[e].stage = "written"
      BY <1>8 DEF Plays!SaveUnlink
    <2>2. edits'[e] = [edits[e] EXCEPT !.stage = "unlinked"]
      BY <1>2, <1>3, <1>8 DEF Plays!SaveUnlink
    <2>3. edits'[e].path = edits[e].path /\ edits'[e].original = edits[e].original
      BY <2>1, <2>2
    <2>4. edits[e].path \in playbooks /\ edits[e].path # edits[e].original /\ Plays!Renames(edits[e])
      BY <2>1 DEF MovesHaveFiles, Plays!Renames
    <2> QED
      BY <1>8, <2>3, <2>4 DEF Plays!SaveUnlink, Plays!Renames
  <1>9. CASE Plays!SaveSelect(e)
    <2>1. /\ edits[e].stage = "unlinked" /\ playbooks' = playbooks
          /\ edits'[e].stage = "moving" /\ edits'[e].path = edits[e].path
      BY <1>2, <1>9 DEF Plays!SaveSelect
    <2> QED
      BY <2>1 DEF MovesHaveFiles
  <1> QED
    BY <1>4, <1>5, <1>6, <1>7, <1>8, <1>9 DEF EditStep

\* A schedule loses its file only to the save that is about to move it, or to
\* a deletion.
LEMMA EditKeepsSchedules ==
    ASSUME FilesTyped, FilesTyped', OneEditor, MovesHaveFiles, Plays!SchedulesFollow,
           NEW e \in Editor, EditStep(e)
    PROVE  Plays!SchedulesFollow'
  <1> USE EditKinds
  <1>1. Editor = {e}
    BY DEF OneEditor
  <1>2. \A next : edits' = [edits EXCEPT ![e] = next] => edits'[e] = next
    BY DEF FilesTyped
  <1>3. \A s \in Schedule : \/ schedules[s] = Plays!NoRow \/ s \in astray
                            \/ schedules[s].name \in playbooks
                            \/ edits[e].stage = "unlinked" /\ edits[e].original = schedules[s].name
                            \/ edits[e].stage = "moving" /\ s \in edits[e].rows
    BY <1>1 DEF Plays!SchedulesFollow
  <1> SUFFICES ASSUME NEW s \in Schedule, schedules'[s] # Plays!NoRow, s \notin astray'
               PROVE  \/ schedules'[s].name \in playbooks'
                      \/ edits'[e].stage = "unlinked" /\ edits'[e].original = schedules'[s].name
                      \/ edits'[e].stage = "moving" /\ s \in edits'[e].rows
    BY DEF Plays!SchedulesFollow
  <1>4. CASE \/ \E path \in Name : Plays!DeleteBegin(e, path)
             \/ \E path \in Name, original \in Name \cup {"none"} : Plays!SaveBegin(e, path, original)
    <2>1. /\ edits[e] = Plays!NoEdit /\ UNCHANGED <<playbooks, astray, schedules>>
      BY <1>4 DEF Plays!DeleteBegin, Plays!SaveBegin
    <2>2. edits[e].stage \notin {"unlinked", "moving"}
      BY <2>1 DEF Plays!NoEdit
    <2> QED
      BY <1>3, <2>1, <2>2
  <1>5. CASE Plays!SyntaxError(e) \/ Plays!SaveWrite(e)
    <2>1. /\ edits[e].stage = "checked" /\ playbooks \subseteq playbooks'
          /\ UNCHANGED <<astray, schedules>>
      BY <1>5 DEF Plays!SyntaxError, Plays!SaveWrite
    <2> QED
      BY <1>3, <2>1
  <1>6. CASE Plays!SaveUnlink(e)
    <2>1. /\ edits[e].stage = "written" /\ UNCHANGED <<astray, schedules>>
          /\ playbooks' = playbooks \ {edits[e].original}
          /\ edits[e].original \in playbooks => edits'[e] = [edits[e] EXCEPT !.stage = "unlinked"]
      BY <1>2, <1>6 DEF Plays!SaveUnlink
    <2>2. edits[e] \in SaveRecord
      BY <2>1
    <2> DEFINE moved == [edits[e] EXCEPT !.stage = "unlinked"]
    <2>3. moved.stage = "unlinked" /\ moved.original = edits[e].original
      BY <2>2
    <2> HIDE DEF moved
    <2>4. edits[e].original \in playbooks =>
            edits'[e].stage = "unlinked" /\ edits'[e].original = edits[e].original
      BY <2>1, <2>3 DEF moved
    <2> QED
      BY <1>3, <2>1, <2>4
  <1>7. CASE Plays!SaveSelect(e)
    <2>1. /\ edits[e].stage = "unlinked" /\ UNCHANGED <<playbooks, astray, schedules>>
          /\ edits'[e].stage = "moving"
          /\ edits'[e].rows = {r \in Schedule : schedules[r].name = edits[e].original}
      BY <1>2, <1>7 DEF Plays!SaveSelect
    <2> QED
      BY <1>3, <2>1
  <1>8. CASE Plays!SaveSchedules(e)
    <2> DEFINE left == {r \in edits[e].rows : schedules[r] # Plays!NoRow}
    <2>1. edits[e].stage = "moving" /\ playbooks' = playbooks
      BY <1>8 DEF Plays!SaveSchedules
    <2>2. \/ /\ schedules' = [r \in Schedule |->
                      IF r \in left THEN [schedules[r] EXCEPT !.name = edits[e].path]
                      ELSE schedules[r]]
             /\ astray' = astray \ left
          \/ astray' = astray \cup left /\ schedules' = schedules
      BY <1>8 DEF Plays!SaveSchedules
    <2>3. s \in left <=> s \in edits[e].rows /\ schedules[s] # Plays!NoRow
      OBVIOUS
    <2>4. schedules[s] \in Plays!Rows \cup {Plays!NoRow}
      BY DEF FilesTyped
    <2> HIDE DEF left
    <2>5. CASE astray' = astray \cup left /\ schedules' = schedules
      BY <1>3, <2>1, <2>3, <2>5
    <2>6. CASE astray' = astray \ left /\ s \in left
      <3>1. astray' = astray \cup left \/ schedules'[s] = [schedules[s] EXCEPT !.name = edits[e].path]
        BY <2>2, <2>6
      <3>2. schedules'[s] = [schedules[s] EXCEPT !.name = edits[e].path]
        BY <2>6, <3>1
      <3>3. schedules'[s].name = edits[e].path
        BY <2>4, <3>2 DEF Plays!Rows, Plays!NoRow
      <3> QED
        BY <2>1, <3>3 DEF MovesHaveFiles
    <2>7. CASE astray' = astray \ left /\ s \notin left
      <3>1. schedules'[s] = schedules[s]
        BY <2>2, <2>7
      <3> QED
        BY <1>3, <2>1, <2>3, <2>7, <3>1
    <2> QED
      BY <2>2, <2>5, <2>6, <2>7
  <1>9. CASE Plays!DeleteUnlink(e)
    <2>1. /\ edits[e].stage = "unused" /\ schedules' = schedules
          /\ playbooks' = playbooks \ {edits[e].path}
          /\ astray' = astray \cup {r \in Schedule : schedules[r].name = edits[e].path}
      BY <1>9 DEF Plays!DeleteUnlink
    <2> QED
      BY <1>3, <2>1
  <1> QED
    BY <1>4, <1>5, <1>6, <1>7, <1>8, <1>9 DEF EditStep


-----------------------------------------------------------------------------
(* The other steps.                                                        *)

ScheduleStep(s) ==
    \/ \E name \in Name, ts \in SUBSET Target, cs \in SUBSET PC : Plays!CreateSchedule(s, name, ts, cs)
    \/ \E row \in Plays!Rows : Plays!UpdateSchedule(s, row)
    \/ Plays!DeleteSchedule(s)
RunStep(s) == Plays!Dispatch(s) \/ Plays!StartTask(s) \/ Plays!EndTask(s)
FleetStep  == \E c \in PC : Plays!DeletePC(c) \/ \E t \in Target : Plays!Join(t, c)

\* A schedule gets the name of a playbook that exists, is noted as astray, or
\* keeps the name it had.
LEMMA ScheduleStepTyped ==
    ASSUME PlaysBounds, FilesTyped, NEW s \in Schedule, ScheduleStep(s)
    PROVE  /\ FilesTyped' /\ UNCHANGED <<playbooks, edits, pcs, members, tasks>>
           /\ \A t \in Schedule :
                 \/ schedules'[t] = Plays!NoRow \/ t \in astray' \/ schedules'[t].name \in playbooks
                 \/ /\ schedules[t] # Plays!NoRow /\ t \notin astray
                    /\ schedules'[t].name = schedules[t].name
  <1>1. UNCHANGED <<playbooks, edits, pcs, members, tasks>>
    BY DEF ScheduleStep, Plays!CreateSchedule, Plays!UpdateSchedule, Plays!DeleteSchedule
  <1>2. PICK row \in Plays!Rows \cup {Plays!NoRow} :
           /\ schedules' = [schedules EXCEPT ![s] = row]
           /\ \/ row = Plays!NoRow /\ astray' = astray
              \/ astray' = astray \ {s} /\ row.name \in playbooks
              \/ astray' = astray \cup {s}
              \/ /\ schedules[s] # Plays!NoRow /\ row.name = schedules[s].name
                 /\ astray' = astray
           /\ bounds' = bounds \/ Plays!Spend("changes")
    <2>1. CASE \E name \in Name, ts \in SUBSET Target, cs \in SUBSET PC :
                  Plays!CreateSchedule(s, name, ts, cs)
      <3>1. PICK name \in Name, ts \in SUBSET Target, cs \in SUBSET PC :
               Plays!CreateSchedule(s, name, ts, cs)
        BY <2>1
      <3> DEFINE row == [name |-> name, targets |-> ts, direct |-> cs, enabled |-> TRUE]
      <3>2. row \in Plays!Rows /\ row.name = name
        BY DEF Plays!Rows
      <3>3. /\ schedules' = [schedules EXCEPT ![s] = row]
            /\ astray' = IF name \in playbooks THEN astray \ {s} ELSE astray \cup {s}
            /\ Plays!Spend("changes")
        BY <3>1 DEF Plays!CreateSchedule, Plays!Chosen
      <3> HIDE DEF row
      <3> QED
        BY <3>2, <3>3
    <2>2. CASE \E row \in Plays!Rows : Plays!UpdateSchedule(s, row)
      BY <2>2 DEF Plays!UpdateSchedule, Plays!Chosen
    <2>3. CASE Plays!DeleteSchedule(s)
      BY <2>3 DEF Plays!DeleteSchedule
    <2> QED
      BY <2>1, <2>2, <2>3 DEF ScheduleStep
  <1>3. schedules' \in [Schedule -> Plays!Rows \cup {Plays!NoRow}]
    BY <1>2 DEF FilesTyped
  <1>4. bounds' \in [edits : 0..MaxSaves, changes : 0..MaxPlans] /\ astray' \subseteq Schedule
    BY <1>2, PlanSpent DEF FilesTyped
  <1>5. FilesTyped'
    BY <1>1, <1>3, <1>4 DEF FilesTyped
  <1>6. \A t \in Schedule : schedules'[t] = IF t = s THEN row ELSE schedules[t]
    BY <1>2 DEF FilesTyped
  <1>7. ASSUME NEW t \in Schedule, t # s
        PROVE  schedules'[t] = schedules[t] /\ (t \in astray' <=> t \in astray)
    BY <1>2, <1>6, <1>7
  <1> QED
    BY <1>1, <1>2, <1>5, <1>6, <1>7

\* A task gets its PCs when it is dispatched and reaches only such as it got:
\* the dispatcher leaves a schedule without PCs alone.
LEMMA RunStepTyped ==
    ASSUME PlaysInv, NEW s \in Schedule, RunStep(s)
    PROVE  /\ RunsTyped' /\ Plays!OnlyTargets'
           /\ UNCHANGED <<playbooks, schedules, pcs, members, edits, astray, bounds>>
  <1>1. UNCHANGED <<playbooks, schedules, pcs, members, edits, astray, bounds>>
    BY DEF RunStep, Plays!Dispatch, Plays!StartTask, Plays!EndTask
  <1>2. ASSUME NEW task \in TaskRecord, tasks' = [tasks EXCEPT ![s] = task],
               task.hosts # {}, task.reached \subseteq task.hosts
        PROVE  RunsTyped' /\ Plays!OnlyTargets'
    BY <1>2 DEF PlaysInv, PlaysTyped, RunsTyped, Plays!OnlyTargets
  <1>3. tasks[s].stage # "none" => /\ tasks[s] \in TaskRecord /\ tasks[s].hosts # {}
                                   /\ tasks[s].reached \subseteq tasks[s].hosts
    <2>1. tasks[s] \in {Plays!NoTask} \cup TaskRecord
      BY DEF PlaysInv, PlaysTyped, RunsTyped
    <2>2. Plays!NoTask.stage = "none"
      BY DEF Plays!NoTask
    <2> QED
      BY <2>1, <2>2 DEF PlaysInv, Plays!OnlyTargets
  <1>4. CASE Plays!Dispatch(s)
    <2> DEFINE targeted == Plays!Targeted(schedules[s])
               task == [stage |-> "queued", name |-> schedules[s].name, hosts |-> targeted,
                        reached |-> {}]
    <2>1. schedules[s] \in Plays!Rows
      <3>1. Plays!NoRow.enabled = FALSE
        BY DEF Plays!NoRow
      <3> QED
        BY <1>4, <3>1 DEF PlaysInv, PlaysTyped, FilesTyped, Plays!Dispatch
    <2>2. schedules[s].name \in Name /\ schedules[s].direct \subseteq PC
          /\ schedules[s].targets \subseteq Target
      BY <2>1 DEF Plays!Rows
    <2>3. targeted \subseteq PC
      BY <2>2 DEF PlaysInv, PlaysTyped, FleetTyped, Plays!Targeted
    <2>4. targeted # {} /\ tasks' = [tasks EXCEPT ![s] = task]
      BY <1>4 DEF Plays!Dispatch
    <2> HIDE DEF targeted
    <2>5. task \in TaskRecord /\ task.hosts # {} /\ task.reached \subseteq task.hosts
      BY <2>2, <2>3, <2>4 DEF TaskRecord
    <2> HIDE DEF task
    <2> QED
      BY <1>1, <1>2, <2>4, <2>5
  <1>5. CASE Plays!StartTask(s)
    <2> DEFINE reached == Plays!Inventory(tasks[s].hosts)
               task == [stage |-> "running", name |-> tasks[s].name, hosts |-> tasks[s].hosts,
                        reached |-> reached]
    <2>1. tasks[s].stage = "queued"
      BY <1>5 DEF Plays!StartTask
    <2>2. tasks[s] \in TaskRecord /\ tasks[s].hosts # {}
      BY <1>3, <2>1
    <2>3. reached \subseteq tasks[s].hosts /\ reached \subseteq PC
      BY <2>2 DEF Plays!Inventory, PlaysInv, PlaysTyped, FleetTyped
    <2> HIDE DEF reached
    <2>4. task \in TaskRecord /\ task.hosts # {} /\ task.reached \subseteq task.hosts
      BY <2>2, <2>3 DEF TaskRecord
    <2>5. tasks' = [tasks EXCEPT ![s] = task]
      <3>1. tasks' = [tasks EXCEPT ![s].stage = "running", ![s].reached = reached]
        BY <1>5 DEF Plays!StartTask, reached
      <3> DEFINE begun == [tasks EXCEPT ![s].stage = "running"]
      <3>2. tasks' = [begun EXCEPT ![s].reached = reached]
        BY <3>1
      <3>3. begun \in [Schedule -> {Plays!NoTask} \cup TaskRecord]
            /\ begun[s] = [tasks[s] EXCEPT !.stage = "running"]
            /\ \A t \in Schedule \ {s} : begun[t] = tasks[t]
        <4>1. [tasks[s] EXCEPT !.stage = "running"] \in TaskRecord
          BY <2>2 DEF TaskRecord
        <4> QED
          BY <4>1 DEF PlaysInv, PlaysTyped, RunsTyped
      <3>4. [begun[s] EXCEPT !.reached = reached] = task
        <4>1. begun[s] \in TaskRecord
          BY <2>2, <3>3 DEF TaskRecord
        <4>2. begun[s].stage = "running" /\ begun[s].name = tasks[s].name
              /\ begun[s].hosts = tasks[s].hosts
          BY <2>2, <3>3 DEF TaskRecord
        <4> HIDE DEF begun
        <4> QED
          BY <4>1, <4>2 DEF TaskRecord
      <3> HIDE DEF begun, task
      <3>5. tasks' = [begun EXCEPT ![s] = task]
        BY <3>2, <3>3, <3>4
      <3> QED
        BY <3>3, <3>5 DEF PlaysInv, PlaysTyped, RunsTyped
    <2> HIDE DEF task
    <2> QED
      BY <1>1, <1>2, <2>4, <2>5
  <1>6. CASE Plays!EndTask(s)
    <2>1. PICK outcome \in {"success", "failed"} :
             tasks' = [tasks EXCEPT ![s].stage = outcome] /\ tasks[s].stage = "running"
      BY <1>6 DEF Plays!EndTask
    <2>2. /\ tasks[s] \in TaskRecord /\ tasks[s].hosts # {}
          /\ tasks[s].reached \subseteq tasks[s].hosts
      BY <1>3, <2>1
    <2> DEFINE task == [tasks[s] EXCEPT !.stage = outcome]
    <2>3. task \in TaskRecord /\ task.hosts = tasks[s].hosts /\ task.reached = tasks[s].reached
      BY <2>2 DEF TaskRecord
    <2>4. tasks' = [tasks EXCEPT ![s] = task]
      BY <2>1
    <2> HIDE DEF task
    <2> QED
      BY <1>1, <1>2, <2>2, <2>3, <2>4
  <1> QED
    BY <1>1, <1>4, <1>5, <1>6 DEF RunStep

\* PCs come, go and change their groups and tags; nothing else moves with them.
LEMMA FleetStepTyped ==
    ASSUME FleetTyped, FleetStep
    PROVE  /\ FleetTyped'
           /\ UNCHANGED <<playbooks, schedules, edits, tasks, astray, bounds>>
  <1>1. UNCHANGED <<playbooks, schedules, edits, tasks, astray, bounds>>
    BY DEF FleetStep, Plays!DeletePC, Plays!Join
  <1>2. ASSUME NEW c \in PC, Plays!DeletePC(c)
        PROVE  FleetTyped'
    BY <1>2 DEF FleetTyped, Plays!DeletePC
  <1>3. ASSUME NEW c \in PC, NEW t \in Target, Plays!Join(t, c)
        PROVE  FleetTyped'
    BY <1>3 DEF FleetTyped, Plays!Join
  <1> QED
    BY <1>1, <1>2, <1>3 DEF FleetStep

LEMMA PlaysSteps ==
    Plays!Next <=> \/ \E e \in Editor : EditStep(e)
                   \/ \E s \in Schedule : ScheduleStep(s) \/ RunStep(s)
                   \/ FleetStep
  BY DEF Plays!Next, EditStep, ScheduleStep, RunStep, FleetStep

LEMMA InitPlays ==
    ASSUME PlaysBounds, Plays!Init
    PROVE  PlaysInv /\ MovesHaveFiles /\ Plays!SchedulesFollow
  <1>1. FilesTyped
    <2>1. Plays!NoEdit \in EditRecord
      BY DEF EditRecord
    <2> QED
      BY <2>1 DEF PlaysBounds, Plays!Init, FilesTyped
  <1>2. FleetTyped
    BY DEF Plays!Init, FleetTyped
  <1>3. RunsTyped /\ Plays!OnlyTargets
    <2>1. Plays!NoTask.stage = "none"
      BY DEF Plays!NoTask
    <2> QED
      BY <2>1 DEF Plays!Init, RunsTyped, Plays!OnlyTargets
  <1>4. MovesHaveFiles
    <2>1. Plays!NoEdit.stage = "idle"
      BY DEF Plays!NoEdit
    <2> QED
      BY <2>1 DEF Plays!Init, MovesHaveFiles
  <1>5. Plays!SchedulesFollow
    BY DEF Plays!Init, Plays!SchedulesFollow
  <1> QED
    BY <1>1, <1>2, <1>3, <1>4, <1>5 DEF PlaysInv, PlaysTyped

LEMMA NextPlays ==
    ASSUME PlaysBounds, PlaysInv, [Plays!Next]_Plays!vars
    PROVE  PlaysInv'
  <1>1. FilesTyped /\ FleetTyped /\ RunsTyped /\ Plays!OnlyTargets
    BY DEF PlaysInv, PlaysTyped
  <1>2. ASSUME NEW e \in Editor, EditStep(e)
        PROVE  PlaysInv'
    BY <1>1, <1>2, EditStepTyped
    DEF PlaysInv, PlaysTyped, FleetTyped, RunsTyped, Plays!OnlyTargets
  <1>3. ASSUME NEW s \in Schedule, ScheduleStep(s)
        PROVE  PlaysInv'
    BY <1>1, <1>3, ScheduleStepTyped
    DEF PlaysInv, PlaysTyped, FleetTyped, RunsTyped, Plays!OnlyTargets
  <1>4. ASSUME NEW s \in Schedule, RunStep(s)
        PROVE  PlaysInv'
    BY <1>1, <1>4, RunStepTyped DEF PlaysInv, PlaysTyped, FilesTyped, FleetTyped
  <1>5. CASE FleetStep
    BY <1>1, <1>5, FleetStepTyped
    DEF PlaysInv, PlaysTyped, FilesTyped, RunsTyped, Plays!OnlyTargets
  <1>6. CASE UNCHANGED Plays!vars
    <2>1. UNCHANGED <<playbooks, schedules, pcs, members, edits, tasks, astray, bounds>>
      BY <1>6 DEF Plays!vars
    <2> QED
      BY <1>1, <2>1 DEF PlaysInv, PlaysTyped, FilesTyped, FleetTyped, RunsTyped, Plays!OnlyTargets
  <1> QED
    BY <1>2, <1>3, <1>4, <1>5, <1>6, PlaysSteps

LEMMA NextFollow ==
    ASSUME PlaysInv, PlaysInv', OneEditor, MovesHaveFiles, Plays!SchedulesFollow,
           PlaysBounds, [Plays!Next]_Plays!vars
    PROVE  MovesHaveFiles' /\ Plays!SchedulesFollow'
  <1>1. FilesTyped /\ FilesTyped' /\ FleetTyped
    BY DEF PlaysInv, PlaysTyped
  <1>2. ASSUME UNCHANGED <<playbooks, schedules, edits, astray>>
        PROVE  MovesHaveFiles' /\ Plays!SchedulesFollow'
    BY <1>2 DEF MovesHaveFiles, Plays!Renames, Plays!SchedulesFollow
  <1>3. ASSUME NEW e \in Editor, EditStep(e)
        PROVE  MovesHaveFiles' /\ Plays!SchedulesFollow'
    BY <1>1, <1>3, EditKeepsFiles, EditKeepsSchedules
  <1>4. ASSUME NEW s \in Schedule, ScheduleStep(s)
        PROVE  MovesHaveFiles' /\ Plays!SchedulesFollow'
    <2>1. /\ UNCHANGED <<playbooks, edits>>
          /\ \A t \in Schedule :
                \/ schedules'[t] = Plays!NoRow \/ t \in astray' \/ schedules'[t].name \in playbooks
                \/ /\ schedules[t] # Plays!NoRow /\ t \notin astray
                   /\ schedules'[t].name = schedules[t].name
      BY <1>1, <1>4, ScheduleStepTyped
    <2>2. MovesHaveFiles'
      BY <2>1 DEF MovesHaveFiles, Plays!Renames
    <2>3. Plays!SchedulesFollow'
      BY <2>1 DEF Plays!SchedulesFollow
    <2> QED
      BY <2>2, <2>3
  <1>5. ASSUME NEW s \in Schedule, RunStep(s)
        PROVE  MovesHaveFiles' /\ Plays!SchedulesFollow'
    BY <1>2, <1>5, RunStepTyped
  <1>6. CASE FleetStep
    BY <1>1, <1>2, <1>6, FleetStepTyped
  <1>7. CASE UNCHANGED Plays!vars
    <2>1. UNCHANGED <<playbooks, schedules, edits, astray>>
      BY <1>7 DEF Plays!vars
    <2> QED
      BY <1>2, <2>1
  <1> QED
    BY <1>3, <1>4, <1>5, <1>6, <1>7, PlaysSteps

LEMMA PlaysInvariant ==
    ASSUME PlaysBounds
    PROVE  Plays!Spec => []PlaysInv
  <1>1. Plays!Init => PlaysInv
    BY InitPlays
  <1>2. PlaysInv /\ [Plays!Next]_Plays!vars => PlaysInv'
    BY NextPlays
  <1> QED
    BY <1>1, <1>2, PTL DEF Plays!Spec

\* A scheduled playbook works on PCs the schedule aimed at when it was
\* dispatched and on no others, whatever happens to the PCs, the groups, the
\* tags and the schedule before a worker takes the task.
THEOREM OnlyTheTargetsAreReached ==
    ASSUME PlaysBounds
    PROVE  Plays!Spec => [](Plays!PlaybooksTypeOK /\ Plays!OnlyTargets)
  <1>1. PlaysInv => Plays!PlaybooksTypeOK /\ Plays!OnlyTargets
    BY DEF PlaysInv, PlaysTyped, FilesTyped, FleetTyped, RunsTyped, TaskRecord,
       Plays!PlaybooksTypeOK
  <1> QED
    BY <1>1, PlaysInvariant, PTL

\* A rename takes its schedules along, as long as one administrator edits at a
\* time (save_local_playbook), whatever is made, changed, switched off or
\* deleted meanwhile: a schedule that names no file was given that name when
\* the file was gone, lost it to a deletion or to a rename that failed, or is
\* about to move.
THEOREM SchedulesAreMoved ==
    ASSUME PlaysBounds, OneEditor
    PROVE  Plays!Spec => []Plays!SchedulesFollow
  <1> DEFINE Follow == PlaysInv /\ MovesHaveFiles /\ Plays!SchedulesFollow
  <1>1. Plays!Init => Follow
    BY InitPlays
  <1>2. Follow /\ [Plays!Next]_Plays!vars => Follow'
    BY NextPlays, NextFollow
  <1>3. Follow => Plays!SchedulesFollow
    OBVIOUS
  <1> QED
    BY <1>1, <1>2, <1>3, PTL DEF Plays!Spec
-----------------------------------------------------------------------------
(***************************************************************************)
(* Wallpapers: who gets the image of a group, for any images, PCs, groups  *)
(* and schedules and every bound on requests.                              *)
(***************************************************************************)
CONSTANTS
    Image, Room, Parent, Plan,
    MaxAssigns, \* requests that assign at once, PCs moved to a group
    MaxUploads

VARIABLES catalog, files, assigned, home, plans, looks, deleting, shown, allowance

Walls == INSTANCE Wallpapers WITH MaxChanges <- MaxAssigns

WallsBounds == MaxAssigns \in Nat /\ MaxUploads \in Nat

\* PCs, groups, images and "none" are not taken for each other.
KindsDiffer == PC \cap Room = {} /\ "none" \notin Image \cup Room /\ "clear" \notin Image

\* What the walk up (parent_id) finds in a tree of groups: the group itself,
\* from each group on it what is above that, and of any groups on it one that
\* is below the others.
WalksUp ==
    \A g \in Room :
        /\ g \in Walls!Above[g] /\ Walls!Above[g] \subseteq Room
        /\ \A u \in Walls!Above[g] : Walls!Above[u] \subseteq Walls!Above[g]
        /\ \A some \in SUBSET Walls!Above[g] :
              some # {} => \E nearest \in some : some \subseteq Walls!Above[nearest]

\* The groups the server makes itself, rooms on a floor or in a building, are
\* such a tree.
LEMMA TwoLevels ==
    ASSUME "none" \notin Room, Parent \in [Room -> Room \cup {"none"}],
           \A g \in Room : Parent[g] # "none" => Parent[g] # g /\ Parent[Parent[g]] = "none"
    PROVE  WalksUp
  <1> DEFINE walk == [g \in Room |-> {g} \cup IF Parent[g] = "none" THEN {} ELSE {Parent[g]}]
             Step(f) == [g \in Room |-> {g} \cup IF Parent[g] = "none" THEN {} ELSE f[Parent[g]]]
  <1>1. walk = Step(walk)
    <2>1. ASSUME NEW g \in Room
          PROVE  walk[g] = {g} \cup IF Parent[g] = "none" THEN {} ELSE walk[Parent[g]]
      <3>1. CASE Parent[g] = "none"
        BY <3>1
      <3>2. CASE Parent[g] # "none"
        <4>1. Parent[g] \in Room /\ Parent[Parent[g]] = "none"
          BY <3>2
        <4>2. walk[Parent[g]] = {Parent[g]} /\ walk[g] = {g} \cup {Parent[g]}
          BY <3>2, <4>1
        <4> QED
          BY <3>2, <4>2
      <3> QED
        BY <3>1, <3>2
    <2> QED
      BY <2>1
  <1>2. Walls!Above = CHOOSE f : f = Step(f)
    BY DEF Walls!Above
  <1>3. Walls!Above = Step(Walls!Above)
    <2> HIDE DEF walk, Step
    <2> QED
      BY <1>1, <1>2
  <1>4. \A g \in Room :
           Walls!Above[g] = {g} \cup IF Parent[g] = "none" THEN {} ELSE Walls!Above[Parent[g]]
    BY <1>3
  <1>5. \A g \in Room : Walls!Above[g] = {g} \cup IF Parent[g] = "none" THEN {} ELSE {Parent[g]}
    BY <1>4
  <1> HIDE DEF walk, Step
  <1> SUFFICES ASSUME NEW g \in Room
               PROVE  /\ g \in Walls!Above[g] /\ Walls!Above[g] \subseteq Room
                      /\ \A u \in Walls!Above[g] : Walls!Above[u] \subseteq Walls!Above[g]
                      /\ \A some \in SUBSET Walls!Above[g] :
                            some # {} => \E nearest \in some : some \subseteq Walls!Above[nearest]
    BY DEF WalksUp
  <1>6. g \in Walls!Above[g] /\ Walls!Above[g] \subseteq Room
    BY <1>5
  <1>7. \A u \in Walls!Above[g] : Walls!Above[u] \subseteq Walls!Above[g]
    BY <1>5
  <1>8. ASSUME NEW some \in SUBSET Walls!Above[g], some # {}
        PROVE  \E nearest \in some : some \subseteq Walls!Above[nearest]
    <2>1. CASE g \in some
      BY <2>1
    <2>2. CASE g \notin some
      <3>1. Parent[g] \in Room /\ some = {Parent[g]}
        BY <1>5, <1>8, <2>2
      <3> QED
        BY <1>5, <3>1
    <2> QED
      BY <2>1, <2>2
  <1> QED
    BY <1>6, <1>7, <1>8

-----------------------------------------------------------------------------
(* Types.                                                                  *)

PlanRecord ==
    [status : Walls!Statuses, targets : SUBSET Walls!Targets, value : Walls!Values]

PicturesTyped ==
    /\ catalog \in SUBSET Image /\ files \in SUBSET Image /\ deleting \in SUBSET Image
    /\ allowance \in [changes : 0..MaxAssigns, uploads : 0..MaxUploads]
    /\ shown \in [PC -> Image \cup {"own"}]
GivenTyped ==
    /\ assigned \in [Walls!Targets -> Image \cup {"none"}]
    /\ home \in [PC -> Room \cup {"none"}]
PlannedTyped ==
    plans \in [Plan -> PlanRecord] /\ looks \in [Plan -> SUBSET {"beat", "request"}]

WallsInv == PicturesTyped /\ GivenTyped /\ PlannedTyped

LEMMA AllowanceSpent ==
    ASSUME WallsBounds, PicturesTyped, NEW kind \in {"changes", "uploads"}, Walls!Spend(kind)
    PROVE  allowance' \in [changes : 0..MaxAssigns, uploads : 0..MaxUploads]
  BY DEF WallsBounds, PicturesTyped, Walls!Spend

LEMMA AppliedTyped ==
    ASSUME GivenTyped, NEW ts \in SUBSET Walls!Targets, NEW value \in Walls!Values
    PROVE  Walls!Applied(ts, value) \in [Walls!Targets -> Image \cup {"none"}]
  BY DEF GivenTyped, Walls!Applied, Walls!Values

\* A PC has the image of its own or of a group above it.
LEMMA EffectiveTyped ==
    ASSUME GivenTyped, WalksUp, NEW c \in PC
    PROVE  Walls!Effective(c) \in Image \cup {"none"}
  <1> DEFINE up == IF home[c] = "none" THEN {}
                   ELSE {g \in Walls!Above[home[c]] : assigned[g] # "none"}
             nearest == CHOOSE g \in up : \A r \in up : r \in Walls!Above[g]
  <1>1. Walls!Effective(c) = IF assigned[c] # "none" THEN assigned[c]
                             ELSE IF up = {} THEN "none" ELSE assigned[nearest]
    BY DEF Walls!Effective
  <1>2. assigned[c] \in Image \cup {"none"}
    BY DEF GivenTyped, Walls!Targets
  <1>3. up # {} => nearest \in Room
    <2>1. up # {} => home[c] \in Room /\ up \in SUBSET Walls!Above[home[c]]
      BY DEF GivenTyped
    <2>2. up # {} => up \subseteq Room /\ \E g \in up : up \subseteq Walls!Above[g]
      BY <2>1 DEF WalksUp
    <2> HIDE DEF up
    <2> QED
      BY <2>2
  <1>4. up # {} => assigned[nearest] \in Image \cup {"none"}
    <2> HIDE DEF up, nearest
    <2> QED
      BY <1>3 DEF GivenTyped, Walls!Targets
  <1> HIDE DEF up, nearest
  <1> QED
    BY <1>1, <1>2, <1>4

CatalogueStep ==
    \E i \in Image : Walls!Upload(i) \/ Walls!DeleteBegin(i) \/ Walls!DeleteCommit(i)
AssignStep ==
    \E ts \in SUBSET Walls!Targets, value \in Walls!Values : Walls!Assign(ts, value)
PlanStep(p) ==
    \/ \E ts \in SUBSET Walls!Targets, value \in Walls!Values : Walls!Schedule(p, ts, value)
    \/ Walls!Comes(p) \/ Walls!ApplyDue(p) \/ Walls!Cancel(p)
LookStep(p) == Walls!ReadDue(p) \/ Walls!CancelRead(p)
PlaceStep ==
    \E c \in PC : Walls!Heartbeat(c) \/ \E g \in Room \cup {"none"} : Walls!Move(c, g)

LEMMA WallsSteps ==
    Walls!Next <=> CatalogueStep \/ AssignStep \/ PlaceStep
                      \/ \E p \in Plan : PlanStep(p) \/ LookStep(p)
  BY DEF Walls!Next, CatalogueStep, AssignStep, PlaceStep, PlanStep, LookStep

\* A schedule changes its status only as it may, and what it says not at all.
LEMMA PlanStepTyped ==
    ASSUME WallsInv, NEW p \in Plan, PlanStep(p)
    PROVE  /\ WallsInv'
           /\ \A q \in Plan : plans[q].status # "applied" /\ plans'[q].status = "applied"
                                 => q = p /\ Walls!ApplyDue(p) /\ Walls!Known(plans[p].value)
  <1>1. UNCHANGED <<catalog, files, home, deleting, shown, allowance>>
    BY DEF PlanStep, Walls!Schedule, Walls!Comes, Walls!ApplyDue, Walls!Cancel
  <1>2. plans \in [Plan -> PlanRecord] /\ plans[p] \in PlanRecord
    BY DEF WallsInv, PlannedTyped
  <1>3. plans[p].targets \in SUBSET Walls!Targets /\ plans[p].value \in Walls!Values
    BY <1>2 DEF PlanRecord
  <1>4. \A s \in Walls!Statuses : /\ [plans[p] EXCEPT !.status = s] \in PlanRecord
                                  /\ [plans[p] EXCEPT !.status = s].status = s
    BY <1>2 DEF PlanRecord
  <1>5. PICK next \in PlanRecord :
           /\ plans' = [plans EXCEPT ![p] = next]
           /\ next.status = "applied" => Walls!ApplyDue(p) /\ Walls!Known(plans[p].value)
    <2>1. ASSUME NEW s \in Walls!Statuses, plans' = [plans EXCEPT ![p].status = s],
                 s = "applied" => Walls!ApplyDue(p) /\ Walls!Known(plans[p].value)
          PROVE  \E next \in PlanRecord :
                    /\ plans' = [plans EXCEPT ![p] = next]
                    /\ next.status = "applied" => Walls!ApplyDue(p) /\ Walls!Known(plans[p].value)
      <3> DEFINE next == [plans[p] EXCEPT !.status = s]
      <3>1. plans' = [plans EXCEPT ![p] = next]
        BY <2>1
      <3>2. next \in PlanRecord /\ next.status = s
        BY <1>4
      <3> HIDE DEF next
      <3> QED
        BY <2>1, <3>1, <3>2
    <2>2. ASSUME NEW ts \in SUBSET Walls!Targets, NEW value \in Walls!Values,
                 Walls!Schedule(p, ts, value)
          PROVE  \E next \in PlanRecord :
                    plans' = [plans EXCEPT ![p] = next] /\ next.status # "applied"
      <3> DEFINE next == [status |-> "pending", targets |-> ts, value |-> value]
      <3>1. plans' = [plans EXCEPT ![p] = next]
        BY <2>2 DEF Walls!Schedule
      <3>2. next \in PlanRecord /\ next.status # "applied"
        BY DEF PlanRecord, Walls!Statuses
      <3> HIDE DEF next
      <3> QED
        BY <3>1, <3>2
    <2>3. {"due", "cancelled", "applied", "failed"} \subseteq Walls!Statuses
      BY DEF Walls!Statuses
    <2>4. CASE Walls!Comes(p)
      BY <2>1, <2>3, <2>4 DEF Walls!Comes
    <2>5. CASE Walls!Cancel(p)
      BY <2>1, <2>3, <2>5 DEF Walls!Cancel
    <2>6. CASE Walls!ApplyDue(p)
      <3>1. CASE Walls!Known(plans[p].value)
        <4>1. plans' = [plans EXCEPT ![p].status = "applied"]
          BY <2>6, <3>1 DEF Walls!ApplyDue
        <4> QED
          BY <2>1, <2>3, <2>6, <3>1, <4>1
      <3>2. CASE ~ Walls!Known(plans[p].value)
        <4>1. plans' = [plans EXCEPT ![p].status = "failed"]
          BY <2>6, <3>2 DEF Walls!ApplyDue
        <4> QED
          BY <2>1, <2>3, <4>1
      <3> QED
        BY <3>1, <3>2
    <2> QED
      BY <2>2, <2>4, <2>5, <2>6 DEF PlanStep
  <1>6. PlannedTyped'
    <2>1. looks' \in [Plan -> SUBSET {"beat", "request"}]
      BY DEF WallsInv, PlannedTyped, PlanStep, Walls!Schedule, Walls!Comes, Walls!ApplyDue,
         Walls!Cancel
    <2> QED
      BY <1>2, <1>5, <2>1 DEF PlannedTyped
  <1>7. assigned' \in [Walls!Targets -> Image \cup {"none"}]
    BY <1>3, AppliedTyped
    DEF WallsInv, GivenTyped, PlanStep, Walls!Schedule, Walls!Comes, Walls!ApplyDue, Walls!Cancel
  <1>8. WallsInv'
    BY <1>1, <1>6, <1>7 DEF WallsInv, PicturesTyped, GivenTyped
  <1>9. \A q \in Plan : plans'[q] = IF q = p THEN next ELSE plans[q]
    BY <1>2, <1>5
  <1> QED
    BY <1>5, <1>8, <1>9

\* Reading a schedule to decide it changes nothing but who has.
LEMMA LookStepTyped ==
    ASSUME WallsInv, NEW p \in Plan, LookStep(p)
    PROVE  WallsInv' /\ plans' = plans
  <1>1. PICK readers \in SUBSET {"beat", "request"} : looks' = [looks EXCEPT ![p] = readers]
    <2>1. looks[p] \in SUBSET {"beat", "request"}
      BY DEF WallsInv, PlannedTyped
    <2> QED
      BY <2>1 DEF LookStep, Walls!ReadDue, Walls!CancelRead
  <1>2. UNCHANGED <<catalog, files, assigned, home, plans, deleting, shown, allowance>>
    BY DEF LookStep, Walls!ReadDue, Walls!CancelRead
  <1> QED
    BY <1>1, <1>2 DEF WallsInv, PicturesTyped, GivenTyped, PlannedTyped

LEMMA OtherWallsTyped ==
    ASSUME WallsBounds, WallsInv, WalksUp, CatalogueStep \/ AssignStep \/ PlaceStep
    PROVE  WallsInv' /\ plans' = plans
  <1>1. CASE CatalogueStep
    <2>1. UNCHANGED <<assigned, home, plans, looks, shown>>
      BY <1>1 DEF CatalogueStep, Walls!Upload, Walls!DeleteBegin, Walls!DeleteCommit
    <2>2. /\ catalog' \in SUBSET Image /\ files' \in SUBSET Image /\ deleting' \in SUBSET Image
          /\ allowance' \in [changes : 0..MaxAssigns, uploads : 0..MaxUploads]
      BY <1>1, AllowanceSpent
      DEF CatalogueStep, Walls!Upload, Walls!DeleteBegin, Walls!DeleteCommit, WallsInv, PicturesTyped
    <2> QED
      BY <2>1, <2>2 DEF WallsInv, PicturesTyped, GivenTyped, PlannedTyped
  <1>2. CASE AssignStep
    <2>1. UNCHANGED <<catalog, files, home, plans, looks, deleting, shown>>
      BY <1>2 DEF AssignStep, Walls!Assign
    <2>2. /\ assigned' \in [Walls!Targets -> Image \cup {"none"}]
          /\ allowance' \in [changes : 0..MaxAssigns, uploads : 0..MaxUploads]
      BY <1>2, AllowanceSpent, AppliedTyped DEF AssignStep, Walls!Assign, WallsInv
    <2> QED
      BY <2>1, <2>2 DEF WallsInv, PicturesTyped, GivenTyped, PlannedTyped
  <1>3. ASSUME NEW c \in PC, Walls!Heartbeat(c)
        PROVE  WallsInv' /\ plans' = plans
    <2>1. PICK image \in Image \cup {"own"} : shown' = [shown EXCEPT ![c] = image]
      <3>1. shown[c] \in Image \cup {"own"}
        BY DEF WallsInv, PicturesTyped
      <3>2. Walls!Effective(c) \in Image \cup {"none"}
        BY EffectiveTyped DEF WallsInv
      <3> QED
        BY <1>3, <3>1, <3>2 DEF Walls!Heartbeat
    <2>2. shown' \in [PC -> Image \cup {"own"}]
      BY <2>1 DEF WallsInv, PicturesTyped
    <2> QED
      BY <1>3, <2>2 DEF Walls!Heartbeat, WallsInv, PicturesTyped, GivenTyped, PlannedTyped
  <1>4. ASSUME NEW c \in PC, NEW g \in Room \cup {"none"}, Walls!Move(c, g)
        PROVE  WallsInv' /\ plans' = plans
    BY <1>4, AllowanceSpent
    DEF Walls!Move, WallsInv, PicturesTyped, GivenTyped, PlannedTyped
  <1> QED
    BY <1>1, <1>2, <1>3, <1>4 DEF PlaceStep

LEMMA InitWalls ==
    ASSUME WallsBounds, Walls!Init
    PROVE  WallsInv
  <1>1. Walls!NoPlan \in PlanRecord
    BY DEF Walls!NoPlan, PlanRecord, Walls!Statuses, Walls!Values
  <1> QED
    BY <1>1 DEF WallsBounds, Walls!Init, WallsInv, PicturesTyped, GivenTyped, PlannedTyped

-----------------------------------------------------------------------------
(* What a group is given reaches its PCs.                                  *)

\* Once the targets of a request have been served, nothing between a PC and
\* the targets above it is assigned but by the request.
LEMMA AppliedCovers ==
    ASSUME GivenTyped, KindsDiffer, WalksUp, NEW ts \in SUBSET Walls!Targets,
           NEW value \in Walls!Values, NEW c \in PC,
           assigned' = Walls!Applied(ts, value), home' = home, NEW t \in Walls!Below(c, ts)
    PROVE  /\ Walls!Ways(c) \cap ts # {}
           /\ assigned'[t] = IF t \in ts /\ value # "clear" THEN value ELSE "none"
  <1>1. home[c] # "none" => home[c] \in Room
    BY DEF GivenTyped
  <1>2. t \in {c} \cup Room /\ t \in Walls!Ways(c) /\ t \in Walls!Targets
    BY <1>1 DEF Walls!Below, Walls!Ways, WalksUp, Walls!Targets
  <1>3. CASE t \in ts
    BY <1>2, <1>3 DEF Walls!Applied
  <1>4. CASE t \notin ts
    <2>1. PICK g \in ts \cap Room : t \in Walls!Under(g) /\ g \in Walls!Ways(c)
      <3>1. CASE t = c
        <4>1. home[c] # "none" /\ Walls!Above[home[c]] \cap ts # {}
          BY <1>4, <3>1, KindsDiffer DEF Walls!Below, Walls!Ways, KindsDiffer
        <4> QED
          BY <1>1, <3>1, <4>1 DEF Walls!Under, Walls!Ways, WalksUp
      <3>2. CASE t # c
        <4>1. home[c] # "none" /\ t \in Walls!Above[home[c]] /\ t \in Room
          BY <1>1, <1>2, <3>2 DEF Walls!Ways, WalksUp
        <4>2. PICK g \in ts : g \in Walls!Above[t]
          BY <1>4, <3>2 DEF Walls!Below
        <4>3. g \in Walls!Above[home[c]] /\ g \in Room
          BY <1>1, <4>1, <4>2 DEF WalksUp
        <4>4. t \in Walls!Under(g)
          BY <1>4, <4>1, <4>2 DEF Walls!Under
        <4> QED
          BY <4>1, <4>3, <4>4 DEF Walls!Ways
      <3> QED
        BY <3>1, <3>2
    <2>2. t \in Walls!Narrower(ts)
      BY <2>1 DEF Walls!Narrower
    <2>3. assigned'[t] = "none"
      BY <1>2, <1>4, <2>2 DEF Walls!Applied
    <2> QED
      BY <1>4, <2>1, <2>3
  <1> QED
    BY <1>3, <1>4

\* The image is then the nearest one above the PC.
LEMMA AppliedReaches ==
    ASSUME GivenTyped, KindsDiffer, WalksUp, NEW ts \in SUBSET Walls!Targets,
           NEW value \in Walls!Values, assigned' = Walls!Applied(ts, value), home' = home
    PROVE  Walls!Reached(ts, value)
  <1> SUFFICES ASSUME NEW c \in PC, Walls!Below(c, ts) # {}
               PROVE  IF value = "clear" THEN \A t \in Walls!Below(c, ts) : assigned'[t] = "none"
                      ELSE Walls!Effective(c)' = value
    BY DEF Walls!Reached
  <1>1. CASE value = "clear"
    BY <1>1, AppliedCovers
  <1>2. CASE value # "clear"
    <2>1. value \in Image /\ value # "none"
      BY <1>2 DEF Walls!Values, KindsDiffer
    <2>2. PICK g \in ts : g \in Walls!Ways(c)
      BY AppliedCovers
    <2>3. c \in Walls!Below(c, ts)
      BY <2>2 DEF Walls!Below, Walls!Ways
    <2> DEFINE up == IF home[c] = "none" THEN {}
                     ELSE {r \in Walls!Above[home[c]] : assigned'[r] # "none"}
               nearest == CHOOSE r \in up : \A u \in up : u \in Walls!Above[r]
    <2>4. Walls!Effective(c)' = IF assigned'[c] # "none" THEN assigned'[c]
                                ELSE IF up = {} THEN "none" ELSE assigned'[nearest]
      BY DEF Walls!Effective
    <2>5. CASE c \in ts
      <3>1. assigned'[c] = value
        BY <1>2, <2>3, <2>5, AppliedCovers
      <3> QED
        BY <1>2, <2>1, <2>4, <3>1
    <2>6. CASE c \notin ts
      <3>1. assigned'[c] = "none"
        BY <2>3, <2>6, AppliedCovers
      <3>2. home[c] \in Room /\ g \in Walls!Above[home[c]]
        BY <2>2, <2>6 DEF Walls!Ways, GivenTyped
      <3>3. g \in Walls!Below(c, ts)
        BY <2>2 DEF Walls!Below
      <3>4. assigned'[g] = value
        BY <1>2, <3>3, AppliedCovers
      <3>5. g \in up /\ up \subseteq Walls!Above[home[c]]
        <4>1. home[c] # "none" /\ assigned'[g] # "none"
          BY <2>1, <3>2, <3>4 DEF KindsDiffer
        <4>2. up = {r \in Walls!Above[home[c]] : assigned'[r] # "none"}
          BY <4>1
        <4> HIDE DEF up, nearest
        <4> QED
          BY <3>2, <4>1, <4>2
      <3>6. \E r \in up : \A u \in up : u \in Walls!Above[r]
        <4> HIDE DEF up, nearest
        <4>1. up # {} /\ up \in SUBSET Walls!Above[home[c]]
          BY <3>5
        <4>2. \E r \in up : up \subseteq Walls!Above[r]
          BY <3>2, <4>1 DEF WalksUp
        <4> QED
          BY <4>2
      <3>7. nearest \in up /\ g \in Walls!Above[nearest]
        <4> HIDE DEF up
        <4> QED
          BY <3>5, <3>6
      <3>8. nearest \in Room /\ nearest \in Walls!Ways(c) /\ assigned'[nearest] # "none"
        <4> HIDE DEF nearest
        <4> QED
          BY <3>2, <3>7 DEF WalksUp, Walls!Ways
      <3> HIDE DEF nearest
      <3>9. nearest \in Walls!Below(c, ts)
        BY <3>7, <3>8 DEF Walls!Below
      <3>10. assigned'[nearest] = value
        BY <1>2, <3>8, <3>9, AppliedCovers
      <3> QED
        BY <1>2, <2>4, <3>1, <3>5, <3>10
    <2> QED
      BY <2>5, <2>6
  <1> QED
    BY <1>1, <1>2

\* Images, assignments and schedules are what their columns hold.
THEOREM WallpapersTyped ==
    ASSUME WallsBounds, WalksUp
    PROVE  Walls!Spec => []Walls!WallpapersTypeOK
  <1>1. Walls!Init => WallsInv
    BY InitWalls
  <1>2. WallsInv /\ [Walls!Next]_(Walls!vars) => WallsInv'
    <2>1. CASE UNCHANGED Walls!vars
      <3>1. UNCHANGED <<catalog, files, assigned, home, plans, looks, deleting, shown, allowance>>
        BY <2>1 DEF Walls!vars
      <3> QED
        BY <3>1 DEF WallsInv, PicturesTyped, GivenTyped, PlannedTyped
    <2> QED
      BY <2>1, WallsSteps, PlanStepTyped, LookStepTyped, OtherWallsTyped
  <1>3. WallsInv => Walls!WallpapersTypeOK
    BY DEF WallsInv, PicturesTyped, GivenTyped, PlannedTyped, PlanRecord, Walls!WallpapersTypeOK
  <1> QED
    BY <1>1, <1>2, <1>3, PTL DEF Walls!Spec

\* An image a schedule gives to groups and PCs is the one each of the PCs has
\* from then on, also those that had one of their own or of a group below the
\* target; and when it takes the image away, nothing is left below the target
\* (apply_assignment, apply_due_schedules).
THEOREM GroupsAreReached ==
    ASSUME WallsBounds, KindsDiffer, WalksUp
    PROVE  Walls!Spec => Walls!GroupIsReached
  <1> DEFINE Reach == \A p \in Plan :
                         plans[p].status # "applied" /\ plans'[p].status = "applied" =>
                             Walls!Reached(plans[p].targets, plans[p].value)
  <1>1. Walls!Init => WallsInv
    BY InitWalls
  <1>2. WallsInv /\ [Walls!Next]_(Walls!vars) => WallsInv' /\ [Reach]_(Walls!vars)
    <2> SUFFICES ASSUME WallsInv, [Walls!Next]_(Walls!vars)
                 PROVE  WallsInv' /\ (Reach \/ UNCHANGED Walls!vars)
      OBVIOUS
    <2>1. CASE UNCHANGED Walls!vars
      <3>1. UNCHANGED <<catalog, files, assigned, home, plans, looks, deleting, shown, allowance>>
        BY <2>1 DEF Walls!vars
      <3> QED
        BY <2>1, <3>1 DEF WallsInv, PicturesTyped, GivenTyped, PlannedTyped
    <2>2. CASE CatalogueStep \/ AssignStep \/ PlaceStep
      BY <2>2, OtherWallsTyped
    <2>3. ASSUME NEW p \in Plan, PlanStep(p)
          PROVE  WallsInv' /\ Reach
      <3>1. WallsInv'
        BY <2>3, PlanStepTyped
      <3>2. ASSUME Walls!ApplyDue(p), Walls!Known(plans[p].value)
            PROVE  Walls!Reached(plans[p].targets, plans[p].value)
        <4>1. plans[p] \in PlanRecord
          BY DEF WallsInv, PlannedTyped
        <4>2. plans[p].targets \in SUBSET Walls!Targets /\ plans[p].value \in Walls!Values
          BY <4>1 DEF PlanRecord
        <4>3. assigned' = Walls!Applied(plans[p].targets, plans[p].value) /\ home' = home
          BY <3>2 DEF Walls!ApplyDue
        <4> QED
          BY <4>2, <4>3, AppliedReaches DEF WallsInv
      <3> QED
        BY <2>3, <3>1, <3>2, PlanStepTyped
    <2>4. ASSUME NEW p \in Plan, LookStep(p)
          PROVE  WallsInv' /\ Reach
      BY <2>4, LookStepTyped
    <2> QED
      BY <2>1, <2>2, <2>3, <2>4, WallsSteps
  <1>3. Walls!GroupIsReached <=> [][Reach]_(Walls!vars)
    BY PTL DEF Walls!GroupIsReached
  <1> HIDE DEF Reach
  <1> QED
    BY <1>1, <1>2, <1>3, PTL DEF Walls!Spec
=============================================================================
