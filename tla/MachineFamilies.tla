--------------------------- MODULE MachineFamilies ---------------------------
(* The definitions the builders and the steps are checked on.                 *)
EXTENDS Naturals, Sequences

-----------------------------------------------------------------------------
(* The machine and hierarchy definitions the builders are checked on: sorted   *)
(* and unsorted rows, rows that tie, terminal states with and without rows,    *)
(* guards and actions whose contracts fit and do not, and trees whose parents  *)
(* and initial children are right, missing, foreign or cyclic.                 *)

Event(i) == [id |-> i, type |-> "T"]
Row(s, e, p, t) == [source |-> s, event |-> e, priority |-> p, target |-> t, guard |-> 0, action |-> 0]

-------------------------------------------------------------------------------
(* Flat machines                                                               *)
Flat(rows) ==
    [states |-> <<[id |-> 3, kind |-> "DONE", type |-> "T"], [id |-> 1, kind |-> "ACTIVE", type |-> "T"],
                  [id |-> 2, kind |-> "ACTIVE", type |-> "T"]>>,
     events |-> <<Event(1)>>, guards |-> <<>>, actions |-> <<>>, transitions |-> rows, initial |-> 1]
Rows == {Row(s, 1, p, t) : s \in {1, 2}, p \in {0, 1}, t \in {1, 2, 3}}

GuardRows ==
    {<<>>} \cup
    {<<[id |-> 5, event |-> e, state_type |-> st, event_type |-> "T", effects |-> f,
        properties |-> {"STABLE", "NO_ALIAS"}]>> : e \in {1, 2}, st \in {"T", "U"}, f \in {{}, {"MAY_FAIL"}}}
ActionRows ==
    {<<>>} \cup
    {<<[id |-> 7, event |-> 1, source_type |-> "T", target_type |-> "T", event_type |-> "T", effects |-> f,
        properties |-> p, observation |-> o, output_type |-> ot, output_event |-> oe]>> :
        f \in {{}, {"MAY_FAIL"}}, p \in {{"DETERMINISTIC", "NO_ALIAS"}, {"TOTAL", "DETERMINISTIC", "NO_ALIAS"}},
        o \in {"NONE", "VALUE", "EVENT"}, ot \in {"none", "T"}, oe \in {0, 1, 2}}
Contracts ==
    {[Flat(<<[Row(1, 1, 0, 2) EXCEPT !.guard = g, !.action = a], Row(2, 1, 0, 3)>>)
        EXCEPT !.guards = gs, !.actions = as] : g \in {0, 5}, a \in {0, 7}, gs \in GuardRows, as \in ActionRows}

Machines == {Flat(rows) : rows \in UNION {[1 .. k -> Rows] : k \in 0 .. 3}} \cup Contracts
SomeMachine == Flat(<<>>)

-------------------------------------------------------------------------------
(* Hierarchies                                                                 *)
State(i, p, c, k) == [id |-> i, parent |-> p, initial_child |-> c, kind |-> k, type |-> "T"]
Guard(i) ==
    [id |-> i, event |-> 1, state_type |-> "T", event_type |-> "T", effects |-> {},
     properties |-> {"STABLE", "NO_ALIAS"}]
Guarded(s, p, t, g) == [Row(s, 1, p, t) EXCEPT !.guard = g]
Hierarchy(states, events, guards, rows) ==
    [states |-> states, events |-> events, guards |-> guards, actions |-> <<>>, initial |-> 1, transitions |-> rows]

Tree ==
    <<State(5, 1, 0, "DONE"), State(1, 0, 2, "ACTIVE"), State(2, 1, 3, "ACTIVE"), State(3, 2, 4, "ACTIVE"),
      State(4, 3, 0, "ACTIVE"), State(6, 2, 0, "ACTIVE")>>
Treed(s1, t1, s2, p2, t2) ==
    Hierarchy(Tree, <<Event(1), Event(2), Event(3)>>, <<Guard(1), Guard(2)>>,
              <<Row(4, 2, 0, 6), Row(2, 3, 0, 5), Row(6, 2, 0, 2), Guarded(s1, 0, t1, 1), Guarded(s2, p2, t2, 2)>>)
SomeHierarchy == Treed(2, 2, 2, 0, 1)

Hierarchies ==
    {Treed(s1, t1, s2, p2, t2) : s1 \in {2, 3, 4}, t1 \in {2, 6}, s2 \in {2, 3, 4}, p2 \in {0, 1}, t2 \in {1, 4}}
    \cup {Hierarchy(<<State(1, p1, 2, "ACTIVE"), State(2, p2, c2, "ACTIVE"), State(3, p3, c3, k)>>,
                    <<Event(1)>>, <<>>, rows) :
             p1 \in 0 .. 1, p2 \in 0 .. 3, p3 \in 0 .. 3, c2 \in 0 .. 3, c3 \in 0 .. 2, k \in {"ACTIVE", "DONE"},
             rows \in {<<>>, <<Row(1, 1, 0, 3)>>}}

(* The tree of an instance with timers: scopes at three depths.                *)
Scopes ==
    Hierarchy(<<State(1, 0, 2, "ACTIVE"), State(2, 1, 3, "ACTIVE"), State(3, 2, 0, "ACTIVE"),
                State(4, 2, 0, "ACTIVE"), State(5, 1, 0, "ACTIVE"), State(6, 1, 0, "DONE")>>,
              <<Event(1), Event(2)>>, <<>>, <<Row(3, 1, 0, 4), Row(2, 2, 0, 5), Row(5, 1, 0, 2), Row(5, 2, 0, 6)>>)

-------------------------------------------------------------------------------
(* The rows of an executing machine: a guarded and an unguarded row, values    *)
(* and an emitted event, and targets that end it well and badly.               *)
Executed(e, g, t, o) ==
    [source |-> "s", event |-> e, guard |-> g, target |-> t, observation |-> o, emits |-> 1]
ExecutedRows ==
    <<Executed(1, 1, "s", "NONE"), Executed(1, 0, "s", "VALUE"), Executed(2, 0, "s", "EVENT"),
      Executed(3, 1, "d", "VALUE"), Executed(3, 2, "d", "NONE"), Executed(4, 0, "e", "VALUE"),
      Executed(4, 0, "e", "NONE")>>
ExecutedKind == [s |-> "ACTIVE", d |-> "DONE", e |-> "ERROR"]

-----------------------------------------------------------------------------
(* The statecharts the builder and the steps are checked on.                   *)

S(i, p, k, o) == [id |-> i, parent |-> p, kind |-> k, order |-> o]
T(i, s, tr, id, g, x, k, p) == [id |-> i, source |-> s, trigger |-> tr, event |-> IF tr = "EVENT" THEN id ELSE 0,
   completion |-> IF tr = "COMPLETION" THEN id ELSE 0, guard |-> g, target |-> x, kind |-> k, priority |-> p, order |-> i]
D(i, s, x) == T(i, s, "EVENTLESS", 0, 0, x, "EXTERNAL", 0)
E(i, s, e, g, x) == T(i, s, "EVENT", e, g, x, "EXTERNAL", IF g = 0 THEN 1 ELSE 0)
V(i) == [id |-> i, valid |-> TRUE]
Def(states, events, guards, rows, targets, sa, ta) ==
  [states |-> states, events |-> [i \in 1 .. events |-> V(i)], guards |-> [i \in 1 .. guards |-> V(i)],
   executables |-> [i \in 1 .. Len(sa) + Len(ta) |-> V(i)],
   transitions |-> rows, targets |-> targets,
   state_actions |-> [i \in DOMAIN sa |-> [state |-> sa[i][1], kind |-> sa[i][2], order |-> 1, executable |-> i]],
   transition_actions |-> [i \in DOMAIN ta |-> [transition |-> ta[i], order |-> 1, executable |-> Len(sa) + i]],
   type_valid |-> TRUE]
(* a parallel state of two regions with histories and finals                  *)
ChartA(init, back) ==
  Def(<<S(1,0,"COMPOUND",1), S(2,1,"INITIAL",2), S(3,1,"PARALLEL",3), S(4,3,"COMPOUND",4), S(5,4,"INITIAL",5), S(14,4,"SHALLOW",6),
        S(6,4,"ATOMIC",7), S(7,4,"FINAL",8), S(8,3,"COMPOUND",9), S(9,8,"INITIAL",10), S(10,8,"ATOMIC",11), S(11,8,"FINAL",12),
        S(12,3,"DEEP",13), S(13,1,"ATOMIC",14), S(15,1,"FINAL",15)>>, 3, 1,
      <<D(1,2,3), D(2,5,init), D(3,14,6), D(4,9,10), D(5,12,0), E(6,6,1,0,7), E(7,10,1,1,11), E(8,3,2,0,13), E(9,13,2,0,back),
        T(10,3,"COMPLETION",3,0,13,"EXTERNAL",0), E(11,6,3,0,13), E(12,10,3,0,11), E(13,13,3,0,15), T(14,4,"EVENT",3,1,7,"INTERNAL",0),
        T(15, 3, "EVENT", 1, 0, 3, "EXTERNAL", 3), T(17,13,"EVENTLESS",0,1,15,"EXTERNAL",0)>>,
      <<[transition |-> 5, order |-> 1, target |-> 6], [transition |-> 5, order |-> 2, target |-> 10]>>,
      <<<<3,"ENTRY">>, <<4,"ENTRY">>, <<6,"ENTRY">>, <<10,"EXIT">>, <<3,"EXIT">>>>, <<2, 3, 5, 9>>)
(* parallels in a parallel; the document orders of the three regions          *)
ChartB(a, b, c) ==
  Def(<<S(1,0,"COMPOUND",1), S(2,1,"INITIAL",2), S(3,1,"PARALLEL",3), S(4,3,"PARALLEL",4), S(5,4,"COMPOUND",a), S(12,5,"INITIAL",a+1), S(13,5,"ATOMIC",a+2), S(14,5,"ATOMIC",a+3), S(6,4,"ATOMIC",b),
        S(7,3,"COMPOUND",c), S(8,7,"INITIAL",c+1), S(9,7,"ATOMIC",c+2), S(10,7,"ATOMIC", c + 3), S(11,1,"ATOMIC",40)>>, 2, 1,
      <<D(1,2,3), D(2,8,9), D(8,12,13), E(3,13,1,1,14), E(9,14,1,0,13), T(4,4,"EVENT",1,0,11,"EXTERNAL",1), E(5,9,1,0,10), E(6,10,1,1,9), E(7,11,2,0,6)>>, <<>>,
      <<<<4,"ENTRY">>, <<6,"ENTRY">>>>, <<>>)
Final == Def(<<S(1,0,"FINAL",1)>>,0,0,<<>>,<<>>,<<>>,<<>>)
Charts == {Final} \cup
    {ChartA(i, b) : i \in {6, 14}, b \in {3, 12, 4, 14, 7}}
    \cup {ChartB(o[1], o[2], o[3]) : o \in {<<6,5,20>>, <<5,9,20>>, <<20,5,6>>, <<20,30,6>>}}
=============================================================================
