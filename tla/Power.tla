-------------------------------- MODULE Power --------------------------------
(***************************************************************************)
(* Switching PCs on and restarting them (services/wake_on_lan.py,          *)
(* services/host_restart.py, wake_hosts and restart_hosts of               *)
(* routers/hosts.py): one task, and the PCs, users and heartbeats around   *)
(* it.                                                                     *)
(*                                                                         *)
(* A wake sends one packet per subnet through a PC that is on there, then  *)
(* asks every PC in rounds until it answers over SSH or has sent a         *)
(* heartbeat.  Minutes pass, PCs are deleted meanwhile, and each log line  *)
(* is a commit after which rows are read again.  A restart sends its       *)
(* command to each PC in a session of its own (host_parallel.py).          *)
(***************************************************************************)
EXTENDS Naturals, FiniteSets

CONSTANTS
    PC,
    Subnet,      \* PC -> its subnet
    NoMac,       \* PCs whose agent has not reported a MAC address
    Choices,     \* sets of PCs users choose
    MaxSwitches, \* bound: PCs going on and off
    MaxDeletes   \* bound: PCs deleted

VARIABLES
    power,    \* PC -> off, on with SSH closed ("deaf"), or open
    listed,   \* PCs that have a row
    status,   \* PC -> its status column; "busy" is online, and the report says
              \* that Windows installs updates
    beats,    \* PCs whose last heartbeat is later than the packets
    job,      \* the task run
    wereOn,   \* PCs that have been on since the packets were sent
    stayOpen, \* PCs that SSH has reached all the time since then
    restarts, \* PCs that have received a restart command
    left      \* what remains of the bounds

vars == <<power, listed, status, beats, job, wereOn, stayOpen, restarts, left>>

rowVars   == <<listed, status, beats>>
traceVars == <<wereOn, stayOpen, restarts>>

\* What the log tells of a PC.
Words == {"nothing", "online", "no MAC", "not sent", "woken", "silent", "accepted", "refused"}
Good  == {"online", "woken", "accepted"}

NoJob == [kind |-> "none", state |-> "none", step |-> "none", pcs |-> {}, todo |-> {},
          pending |-> {}, round |-> {}, told |-> [c \in PC |-> "nothing"]]

PowerTypeOK ==
    /\ power \in [PC -> {"off", "deaf", "open"}]
    /\ \A S \in {listed, beats, wereOn, stayOpen, restarts} : S \subseteq PC
    /\ status \in [PC -> {"online", "busy", "offline"}]
    /\ job \in [kind : {"none", "wake", "restart"}, state : {"none", "queued", "running", "success", "failed"},
                step : {"none", "begin", "send", "wait", "each"}, pcs : SUBSET PC, todo : SUBSET PC,
                pending : SUBSET PC, round : SUBSET PC, told : [PC -> Words]]
    /\ left \in [switches : 0..MaxSwitches, deletes : 0..MaxDeletes]

Init ==
    /\ power \in [PC -> {"off", "deaf", "open"}]
    /\ listed = PC
    /\ status \in [PC -> {"online", "busy", "offline"}]
    /\ beats = {} /\ wereOn = {} /\ stayOpen = {} /\ restarts = {}
    /\ job = NoJob
    /\ left = [switches |-> MaxSwitches, deletes |-> MaxDeletes]

Spend(kind) ==
    /\ left[kind] > 0
    /\ left' = [left EXCEPT ![kind] = @ - 1]

On(c) == power[c] # "off"
Online(c) == status[c] # "offline"

\* Bound: PCs are followed while there is a task that reads them.
Followed == job.state \in {"queued", "running"}

-----------------------------------------------------------------------------
(* The PCs and the users.                                                  *)

\* A PC goes on, a packet wakes it, or it goes off.
Switch(c) ==
    /\ Followed /\ Spend("switches")
    /\ \E p \in {"off", "deaf", "open"} : p # power[c] /\ power' = [power EXCEPT ![c] = p]
    /\ wereOn' = IF job.step = "wait" /\ power'[c] # "off" THEN wereOn \cup {c} ELSE wereOn
    /\ stayOpen' = IF power'[c] = "open" THEN stayOpen ELSE stayOpen \ {c}
    /\ UNCHANGED <<rowVars, job, restarts>>

\* A heartbeat, as far as these tasks read it.
Heartbeat(c) ==
    /\ Followed /\ On(c) /\ c \in listed
    /\ \E s \in {"online", "busy"} : status' = [status EXCEPT ![c] = s]
    /\ beats' = IF job.step = "wait" THEN beats \cup {c} ELSE beats
    /\ UNCHANGED <<power, listed, job, traceVars, left>>

\* The sweep over SSH (module HostPresence); a report it leaves may lapse.
Swept(c) ==
    /\ Followed /\ c \in listed
    /\ \E s \in IF power[c] = "open" THEN {"online", status[c]} \ {"offline"} ELSE {"offline"} :
          status' = [status EXCEPT ![c] = s]
    /\ UNCHANGED <<power, listed, beats, job, traceVars, left>>

Delete(c) ==
    /\ Followed /\ c \in listed /\ Spend("deletes")
    /\ listed' = listed \ {c}
    /\ UNCHANGED <<power, status, beats, job, traceVars>>

\* wake_hosts: PCs that are gone are left out.
WakeAsk(pcs) ==
    /\ job.state = "none" /\ pcs \cap listed # {}
    /\ job' = [NoJob EXCEPT !.kind = "wake", !.state = "queued", !.step = "begin", !.pcs = pcs \cap listed]
    /\ UNCHANGED <<power, rowVars, traceVars, left>>

\* restart_hosts: every PC must be there and online.
RestartAsk(pcs) ==
    /\ job.state = "none" /\ pcs # {}
    /\ pcs \subseteq listed /\ \A c \in pcs : Online(c)
    /\ job' = [NoJob EXCEPT !.kind = "restart", !.state = "queued", !.step = "begin", !.pcs = pcs]
    /\ UNCHANGED <<power, rowVars, traceVars, left>>

-----------------------------------------------------------------------------
(* run_host_wake.                                                          *)

Ends(state, told) ==
    job' = [job EXCEPT !.state = state, !.step = "none", !.told = told,
                       !.todo = {}, !.pending = {}, !.round = {}]

Verdict(pcs, told) == IF \A c \in pcs : told[c] \in Good THEN "success" ELSE "failed"

\* A row that is read again and is gone ends the task.
Lost(pcs) ==
    /\ ~ pcs \subseteq listed
    /\ Ends("failed", job.told)
    /\ UNCHANGED <<power, rowVars, traceVars, left>>

\* wake_target: the address of the adapter through which the PC has come; the
\* subnet is guessed when the agent has not told it.
HasTarget(c) == c \notin NoMac

\* The PCs that are on already, or cannot be woken, are told so.
WakeBegin ==
    LET pcs  == job.pcs \cap listed
        told == [c \in PC |-> CASE c \notin pcs -> "nothing"
                                [] c \in pcs /\ Online(c) -> "online"
                                [] c \in pcs /\ ~Online(c) /\ ~HasTarget(c) -> "no MAC"
                                [] OTHER -> "nothing"]
    IN
    /\ job.kind = "wake" /\ job.step = "begin"
    /\ job' = [job EXCEPT !.state = "running", !.step = "send", !.pcs = pcs, !.told = told,
                          !.todo = {c \in pcs : told[c] = "nothing"}]
    /\ UNCHANGED <<power, rowVars, traceVars, left>>

\* relay_candidates: PCs of the subnet that count as online and are not woken
\* themselves.
Relays(s) == {r \in listed \ job.pcs : Online(r) /\ Subnet[r] = s}

\* _send_via_relay.
Relayed(s) == \E r \in Relays(s) : power[r] = "open"

\* A PC that is on may refuse the command, and only the first few are tried.
WakeSend(s) ==
    LET pcs == {c \in job.todo : Subnet[c] = s}
    IN
    /\ job.step = "send" /\ pcs # {} /\ pcs \subseteq listed
    /\ \/ /\ Relayed(s)
          /\ job' = [job EXCEPT !.todo = @ \ pcs, !.pending = @ \cup pcs]
       \/ job' = [job EXCEPT !.todo = @ \ pcs,
                             !.told = [c \in PC |-> IF c \in pcs THEN "not sent" ELSE @[c]]]
    /\ UNCHANGED <<power, rowVars, traceVars, left>>

\* The wait begins after the last packet; without one the task is over.
WakeWait ==
    /\ job.step = "send" /\ job.todo = {}
    /\ IF job.pending = {}
       THEN Ends(Verdict(job.pcs, job.told), job.told) /\ UNCHANGED <<beats, wereOn, stayOpen>>
       ELSE /\ job' = [job EXCEPT !.step = "wait", !.round = job.pending]
            /\ beats' = {}
            /\ wereOn' = {c \in PC : On(c)}
            /\ stayOpen' = {c \in PC : power[c] = "open"}
    /\ UNCHANGED <<power, listed, status, restarts, left>>

\* Mutant: only the agent is waited for.
AnswersByAgent(c) == c \in beats

\* A heartbeat later than the packets, or a connection to SSH.
Answers(c) == c \in beats \/ power[c] = "open"

WakePoll(c) ==
    /\ job.step = "wait" /\ c \in job.round \cap listed
    /\ job' = IF Answers(c)
              THEN [job EXCEPT !.round = @ \ {c}, !.pending = @ \ {c}, !.told[c] = "woken"]
              ELSE [job EXCEPT !.round = @ \ {c}]
    /\ UNCHANGED <<power, rowVars, traceVars, left>>

\* Time for another round, or the end of WAKE_WAIT_SECONDS.
WakeRound ==
    /\ job.step = "wait" /\ job.round = {}
    /\ \/ job.pending # {} /\ job' = [job EXCEPT !.round = job.pending]
       \/ LET told == [c \in PC |-> IF c \in job.pending THEN "silent" ELSE job.told[c]]
          IN Ends(Verdict(job.pcs, told), told)
    /\ UNCHANGED <<power, rowVars, traceVars, left>>

\* A relay that is deleted while it is tried does the same.
WakeLost ==
    \/ job.step = "send" /\ Lost(job.todo)
    \/ job.step = "send" /\ Lost({r \in PC \ job.pcs : \E c \in job.todo : Subnet[r] = Subnet[c]})
    \/ job.step = "wait" /\ Lost(IF job.round # {} THEN job.round ELSE job.pending)

-----------------------------------------------------------------------------
(* run_host_restart.                                                       *)

RestartBegin ==
    /\ job.kind = "restart" /\ job.step = "begin"
    /\ job' = [job EXCEPT !.state = "running", !.step = "each", !.todo = job.pcs]
    /\ UNCHANGED <<power, rowVars, traceVars, left>>

Told(c, word) == job' = [job EXCEPT !.todo = @ \ {c}, !.told[c] = word]

\* restart_host: a PC that is gone, offline or busy gets no command ...
RestartRefused(c) ==
    /\ job.step = "each" /\ c \in job.todo
    /\ c \notin listed \/ status[c] # "online"
    /\ Told(c, "refused")
    /\ UNCHANGED <<power, rowVars, traceVars, left>>

\* ... another one does, if SSH reaches it; that an answer is missing proves
\* nothing.
RestartSent(c) ==
    /\ job.step = "each" /\ c \in job.todo \cap listed
    /\ status[c] = "online"
    /\ IF power[c] = "open"
       THEN \/ Told(c, "accepted") /\ restarts' = restarts \cup {c}
            \/ Told(c, "refused") /\ restarts' \in {restarts, restarts \cup {c}}
       ELSE Told(c, "refused") /\ UNCHANGED restarts
    /\ UNCHANGED <<power, rowVars, wereOn, stayOpen, left>>

RestartEnds ==
    /\ job.step = "each" /\ job.todo = {}
    /\ Ends(Verdict(job.pcs, job.told), job.told)
    /\ UNCHANGED <<power, rowVars, traceVars, left>>

Work ==
    \/ WakeBegin \/ WakeWait \/ WakeRound \/ WakeLost \/ RestartBegin \/ RestartEnds
    \/ \E c \in PC : WakeSend(Subnet[c]) \/ WakePoll(c) \/ RestartRefused(c) \/ RestartSent(c)

Next ==
    \/ Work
    \/ \E c \in PC : Switch(c) \/ Heartbeat(c) \/ Swept(c) \/ Delete(c)
    \/ \E pcs \in Choices : WakeAsk(pcs) \/ RestartAsk(pcs)

Spec == Init /\ [][Next]_vars

-----------------------------------------------------------------------------
(* Properties.                                                             *)

Telling(word) == {c \in PC : job.told[c] = word}

\* The log is true: a PC said to have woken was on after the packets, one
\* said to be silent was not open all the time, and one said to have accepted
\* the restart has got it; a task that succeeded has good news of every PC it
\* found, although PCs are deleted and switched while it waits.
LogIsTrue ==
    /\ Telling("woken") \subseteq wereOn
    /\ Telling("silent") \cap stayOpen = {}
    /\ Telling("accepted") \subseteq restarts
    /\ job.state = "success" => \A c \in job.pcs : job.told[c] \in Good
=============================================================================
