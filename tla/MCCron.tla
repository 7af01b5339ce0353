------------------------------- MODULE MCCron -------------------------------
(* Two months of three days, weeks of two days, days of two hours of two   *)
(* minutes, and zones without a change, with a gap and with an overlap.    *)
EXTENDS Cron, Sequences

MCCalendar == [d \in 0..5 |-> [month |-> 1 + d \div 3, dom |-> 1 + (d % 3), dow |-> d % 2]]

Plain(i) == [day |-> i \div 4, minute |-> i % 4]
Steady == [i \in Instants |-> Plain(i)]

(* The wall clock is put forward by two minutes, or back by two.           *)
Forward(at) == [i \in Instants |-> Plain(IF i < at THEN i ELSE i + 2)]
Back(at) == [i \in Instants |-> Plain(IF i < at THEN i ELSE i - 2)]
MCZones == {Steady, Forward(5), Forward(10), Back(7)}

MCTexts ==
    [minute : {{Star(1)}, {Value(1, 1)}}, hour : {{Star(2)}, {Value(1, 1)}},
     dom : {{Star(1)}, {Value(3, 1)}, {Value(2, 2)}}, month : {{Star(1)}, {Span(2, 2, 1)}},
     dow : {{Star(1)}, {Value(1, 1)}, {Value(2, 1)}}]
    \cup [minute : {{}, {Star(0)}}, hour : {{Star(1)}}, dom : {{Star(1)}},
          month : {{Value(3, 1)}}, dow : {{Span(2, 1, 1)}}]

(* A task whose times nobody looks at.                                     *)
Resting ==
    /\ expr = Parse([minute |-> {Star(1)}, hour |-> {Star(1)}, dom |-> {Star(1)},
                     month |-> {Star(1)}, dow |-> {Star(1)}])
    /\ zone = Steady
    /\ now = 0
    /\ timer = Unset
=============================================================================
