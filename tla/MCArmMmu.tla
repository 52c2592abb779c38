------------------------------ MODULE MCArmMmu ------------------------------
(***************************************************************************)
(* A small address space: two sections of four lines, the upper one where  *)
(* the process id moves the lower one.  The level 1 table is at 0, a       *)
(* coarse table of small pages at 2 and a fine table of tiny pages at 4.   *)
(***************************************************************************)
EXTENDS ArmMmu

Rw == [i \in 0 .. 3 |-> 3]
UserRead == [i \in 0 .. 3 |-> IF i = 3 THEN 2 ELSE 1]

Word(type, base, ap, dom, c) ==
    [type |-> type, base |-> base, ap |-> ap, dom |-> dom, c |-> c]

Nil == Word(0, 0, Rw, 0, FALSE)
Section == Word(2, 4, UserRead, 1, TRUE)     \* as level 2: a small page at 4
Coarse == Word(1, 2, Rw, 0, TRUE)            \* as level 2: a large page at 0
Fine == Word(3, 4, Rw, 0, FALSE)             \* as level 2: a tiny page at 4

MCWords == {Nil, Section, Coarse, Fine}
MCStores == {Nil, Section, Fine}
MCSize == [TINYPAGE |-> 1, SMALLPAGE |-> 2, LARGEPAGE |-> 4, SECTION |-> 4]
MCQuarter == [SMALLPAGE |-> 1, LARGEPAGE |-> 1]
MCInitDacr == [d \in 0 .. 1 |-> IF d = 0 THEN 2 ELSE 3]
MCDacrs == {[d \in 0 .. 1 |-> 1]}
MCControls ==
    {[on |-> FALSE, align |-> FALSE, s |-> FALSE, r |-> TRUE],
     [on |-> TRUE, align |-> TRUE, s |-> TRUE, r |-> FALSE]}
MCMems ==
    {[p \in 0 .. 7 |-> CASE p = 0 -> l1
                          [] p \in 1 .. 3 -> Section
                          [] p \in 4 .. 7 -> Fine
                          [] OTHER -> Nil] : l1 \in {Coarse}}
=============================================================================
