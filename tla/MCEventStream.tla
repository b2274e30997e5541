---------------------------- MODULE MCEventStream ----------------------------
(* Instances of EventStream: a console that watches, and attempts that take time. *)
EXTENDS EventStream

Draft(of, to) == [subject |-> of, status |-> to]

\* Four events of which only the order matters, staged one or several at a time.
Watching ==
    [console |-> TRUE, drafts |-> {Draft("run", "EXECUTING")}, times |-> {0}, now |-> {},
     events |-> 4, faults |-> 2, batches |-> TRUE,
     writers |-> {"api", "cli"}]

\* Two attempts, the run and an approval, with clocks that disagree and instants of half a
\* millisecond; a projection may be read later still.
Measuring ==
    [console |-> FALSE,
     drafts |-> {Draft("a1", "RUNNING"), Draft("a1", "WAITING"), Draft("a1", "SUCCEEDED"),
                 Draft("a2", "RUNNING"), Draft("a2", "CANCELLED"),
                 Draft("approval", "PENDING"), Draft("approval", "REJECTED"),
                 Draft("run", "COMPLETED")},
     times |-> {0, 1, 4}, now |-> {0, 1, 4, 7},
     events |-> 5, faults |-> 0, batches |-> FALSE, writers |-> {"cli"}]

Both == {Watching, Measuring}

\* The third task follows the first, and the second, which follows the fourth.
Plan == [t1 |-> {}, t2 |-> {"t4"}, t3 |-> {"t1", "t2"}, t4 |-> {}]
Task == [a1 |-> "t1", a2 |-> "t3"]
=============================================================================
