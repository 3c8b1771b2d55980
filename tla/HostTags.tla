------------------------------ MODULE HostTags ------------------------------
(***************************************************************************)
(* Host tags: rules "manufacturer and model -> tag", tags set by hand, and *)
(* the heartbeats that apply the rules (services/host_tags.py,             *)
(* routers/host_tags.py and heartbeat of routers/agent.py).                *)
(*                                                                         *)
(* Every request reads rows, decides on what it has read, and writes at    *)
(* its commit; it writes the columns it has changed and no others.         *)
(* Requests that change rules are short, but they rewrite the tag of every *)
(* PC.  "none" stands for no tag and for a model not reported yet.         *)
(***************************************************************************)
EXTENDS Naturals, FiniteSets

CONSTANTS
    Host,
    Model,
    Tag,
    Writer,      \* requests in progress at once
    MaxRequests, \* bound: requests of administrators and operators
    MaxRules     \* bound: rows of host_tag_rules ever inserted

VARIABLES
    tags,     \* tags that exist
    rules,    \* row of host_tag_rules -> its model and tag
    hosts,    \* host -> what its PC reports, and the columns of its row
    writes,   \* writer -> the request and what it will write
    inserted, \* rows of host_tag_rules so far
    asks      \* what remains of MaxRequests

vars == <<tags, rules, hosts, writes, inserted, asks>>

Choice == Tag \cup {"none"}
Row    == 1..MaxRules
Rule   == [model : Model, tag : Tag]

\* A column that is not written is "same".
Columns == [tag : Choice \cup {"same"}, manual : {"yes", "no", "same"}, model : Model \cup {"same"}]
Same    == [tag |-> "same", manual |-> "same", model |-> "same"]
Idle    == [kind |-> "idle"]

TagsTypeOK ==
    /\ tags \subseteq Tag
    /\ DOMAIN rules \subseteq Row /\ \A r \in DOMAIN rules : rules[r] \in Rule
    /\ hosts \in [Host -> [pc : Model, model : Model \cup {"none"}, tag : Choice, manual : BOOLEAN]]
    /\ \A w \in Writer : writes[w] # Idle => writes[w].columns \in [Host -> Columns]
    /\ inserted \in 0..MaxRules
    /\ asks \in 0..MaxRequests

Init ==
    /\ tags = Tag
    /\ rules = << >>
    /\ hosts \in [Host -> {[pc |-> m, model |-> "none", tag |-> "none", manual |-> FALSE] : m \in Model}]
    /\ writes = [w \in Writer |-> Idle]
    /\ inserted = 0
    /\ asks = MaxRequests

-----------------------------------------------------------------------------
(* services/host_tags.py.                                                  *)

\* rule_tag: of two rules for a model, either may be the last one read.
RulesFor(m, table) == {r \in DOMAIN table : table[r].model = m}
RuleTags(m, table) ==
    IF RulesFor(m, table) = {} THEN {"none"} ELSE {table[r].tag : r \in RulesFor(m, table)}

\* Mutant: a tag a PC has already is left to retag_hosts.
AppliedOnce(columns, current, wanted) ==
    [columns EXCEPT !.tag = IF current = "none" THEN wanted ELSE "same"]

\* apply_rule, for a PC that has no manual tag.
Applied(columns, current, wanted) ==
    [columns EXCEPT !.tag = IF current = wanted THEN "same" ELSE wanted]

\* retag_hosts: "from" is the tag each PC has in this transaction, "wanted"
\* the tag the rules give it.
Retagged(columns, manual, from, wanted) ==
    [h \in Host |-> IF h \in manual THEN columns[h] ELSE
        IF from[h] = wanted[h] THEN columns[h] ELSE [columns[h] EXCEPT !.tag = wanted[h]]]

Wanted(table, h) == RuleTags(hosts[h].model, table)
Manual == {h \in Host : hosts[h].manual}
TagOf  == [h \in Host |-> hosts[h].tag]

-----------------------------------------------------------------------------
(* Reading: what a request decides.                                        *)

Ask ==
    /\ asks > 0
    /\ asks' = asks - 1

Opens(w, request) ==
    /\ writes[w] = Idle
    /\ writes' = [writes EXCEPT ![w] = request]
    /\ UNCHANGED <<tags, rules, hosts, inserted>>

Nothing == [h \in Host |-> Same]

\* heartbeat: the model the PC reports is applied before its row is saved.
HeartbeatRead(w, h) ==
    \E wanted \in RuleTags(hosts[h].pc, rules) :
        LET seen == [Same EXCEPT !.model = hosts[h].pc]
        IN /\ Opens(w, [kind |-> "heartbeat", columns |-> [Nothing EXCEPT
                 ![h] = IF hosts[h].manual THEN seen ELSE Applied(seen, hosts[h].tag, wanted)]])
           /\ UNCHANGED asks

\* assign_tag by hand, and back to the rule.
AssignRead(w, hs, t) ==
    /\ Ask /\ t \in tags \cup {"none"}
    /\ Opens(w, [kind |-> "assign", columns |-> [h \in Host |->
           IF h \in hs THEN [model |-> "same", manual |-> IF hosts[h].manual THEN "same" ELSE "yes",
                             tag |-> IF hosts[h].tag = t THEN "same" ELSE t]
           ELSE Same]])

ByRuleRead(w, hs) ==
    /\ Ask
    /\ \E wanted \in [hs -> Choice] :
          /\ \A h \in hs : wanted[h] \in Wanted(rules, h)
          /\ Opens(w, [kind |-> "assign", columns |-> [h \in Host |->
                IF h \in hs
                THEN Applied([Same EXCEPT !.manual = IF hosts[h].manual THEN "no" ELSE "same"],
                             hosts[h].tag, wanted[h])
                ELSE Same]])

\* set_rule: the first rule of the model is kept, others of it are deleted.
SetRuleRead(w, m, t) ==
    LET existing == RulesFor(m, rules)
        kept     == IF t = "none" THEN {} ELSE {r \in existing : \A q \in existing : r <= q}
        set      == IF t = "none" THEN {} ELSE {[model |-> m, tag |-> t]}
    IN
    /\ Ask /\ t \in tags \cup {"none"}
    /\ \E wanted \in [Host -> Choice] :
          /\ \A h \in Host : wanted[h] \in
                IF hosts[h].model = m THEN {t} ELSE Wanted(rules, h)
          /\ Opens(w, [kind |-> "rule", kept |-> kept, gone |-> existing \ kept, set |-> set,
                       columns |-> Retagged(Nothing, Manual, TagOf, wanted)])

\* delete_tag: its PCs lose the manual mark with it.
DeleteTagRead(w, t) ==
    LET left  == [r \in {q \in DOMAIN rules : rules[q].tag # t} |-> rules[r]]
        holds == {h \in Host : hosts[h].tag = t}
        freed == [h \in Host |-> IF h \in holds
                    THEN [Same EXCEPT !.tag = "none", !.manual = IF hosts[h].manual THEN "no" ELSE "same"]
                    ELSE Same]
    IN
    /\ Ask /\ t \in tags
    /\ \E wanted \in [Host -> Choice] :
          /\ \A h \in Host : wanted[h] \in Wanted(left, h)
          /\ Opens(w, [kind |-> "delete", tag |-> t, gone |-> DOMAIN rules \ DOMAIN left,
                       columns |-> Retagged(freed, Manual \ holds,
                                      [h \in Host |-> IF h \in holds THEN "none" ELSE hosts[h].tag], wanted)])

-----------------------------------------------------------------------------
(* Writing.                                                                *)

Written(row, columns) ==
    [row EXCEPT !.tag = IF columns.tag = "same" THEN @ ELSE columns.tag,
                !.manual = IF columns.manual = "same" THEN @ ELSE columns.manual = "yes",
                !.model = IF columns.model = "same" THEN @ ELSE columns.model]

Saved(columns) == [h \in Host |-> Written(hosts[h], columns[h])]

\* The foreign keys: a tag deleted meanwhile fails the whole transaction.
Refused(request) ==
    \/ \E h \in Host : request.columns[h].tag \in Tag \ tags
    \/ request.kind = "rule" /\ (\/ \E s \in request.set : s.tag \notin tags
                                 \/ ~(request.kept \subseteq DOMAIN rules))

Fails(w) ==
    /\ writes[w] # Idle /\ Refused(writes[w])
    /\ writes' = [writes EXCEPT ![w] = Idle]
    /\ UNCHANGED <<tags, rules, hosts, inserted, asks>>

CommitHosts(w) ==
    /\ writes[w] # Idle /\ ~Refused(writes[w])
    /\ writes[w].kind \in {"heartbeat", "assign"}
    /\ hosts' = Saved(writes[w].columns)
    /\ writes' = [writes EXCEPT ![w] = Idle]
    /\ UNCHANGED <<tags, rules, inserted, asks>>

CommitRule(w) ==
    /\ writes[w] # Idle /\ ~Refused(writes[w])
    /\ writes[w].kind = "rule"
    /\ LET fresh == IF writes[w].kept = {} /\ writes[w].set # {} THEN {inserted + 1} ELSE {}
           rest  == DOMAIN rules \ writes[w].gone
           new   == CHOOSE s \in writes[w].set : TRUE
       IN /\ fresh \subseteq Row
          /\ rules' = [r \in rest \cup fresh |-> IF r \in writes[w].kept \cup fresh THEN new ELSE rules[r]]
          /\ inserted' = inserted + Cardinality(fresh)
    /\ hosts' = Saved(writes[w].columns)
    /\ writes' = [writes EXCEPT ![w] = Idle]
    /\ UNCHANGED <<tags, asks>>

\* ON DELETE SET NULL and CASCADE catch what has been written meanwhile.
CommitDelete(w) ==
    /\ writes[w] # Idle /\ ~Refused(writes[w])
    /\ writes[w].kind = "delete"
    /\ tags' = tags \ {writes[w].tag}
    /\ LET left == {r \in DOMAIN rules \ writes[w].gone : rules[r].tag # writes[w].tag}
       IN rules' = [r \in left |-> rules[r]]
    /\ hosts' = [h \in Host |->
                    LET row == Written(hosts[h], writes[w].columns[h])
                    IN IF row.tag = writes[w].tag THEN [row EXCEPT !.tag = "none"] ELSE row]
    /\ writes' = [writes EXCEPT ![w] = Idle]
    /\ UNCHANGED <<inserted, asks>>

Commit(w) == Fails(w) \/ CommitHosts(w) \/ CommitRule(w) \/ CommitDelete(w)

Next ==
    \E w \in Writer :
        \/ Commit(w)
        \/ \E h \in Host : HeartbeatRead(w, h)
        \/ \E hs \in (SUBSET Host) \ {{}} : ByRuleRead(w, hs) \/ \E t \in Choice : AssignRead(w, hs, t)
        \/ \E m \in Model, t \in Choice : SetRuleRead(w, m, t)
        \/ \E t \in Tag : DeleteTagRead(w, t)

Spec == Init /\ [][Next]_vars

\* Requests reach their commit, and every PC goes on reporting.
Fairness ==
    /\ \A w \in Writer : WF_vars(Commit(w))
    /\ \A h \in Host : SF_vars(\E w \in Writer : HeartbeatRead(w, h))

-----------------------------------------------------------------------------
(* Properties.                                                             *)

\* A PC without a manual tag has one the rules give its model, or none if they
\* give none.
TagFits == \A h \in Host : ~hosts[h].manual => hosts[h].tag \in RuleTags(hosts[h].pc, rules)

\* Whatever deletions, changes of rules and heartbeats overwrite each other, a
\* PC that goes on reporting ends so, unless somebody has decided by hand.
RuleTagSettles == <>[]TagFits

\* host_tags.py: rules do not touch a manual tag until it is given back to
\* them.  A deleted tag goes in any case.
ManualTagStays ==
    [][ \A w \in Writer, h \in Host :
          /\ hosts[h].manual /\ hosts'[h].manual
          /\ writes[w] # Idle /\ writes'[w] = Idle /\ writes[w].kind \in {"heartbeat", "rule"}
          => hosts'[h].tag = hosts[h].tag ]_vars
=============================================================================
