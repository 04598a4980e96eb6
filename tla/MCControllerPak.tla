------------------------- MODULE MCControllerPak -------------------------
(* Small instances of ControllerPak for TLC. *)
EXTENDS ControllerPak, TLC
CONSTANTS k1, k2, zero, v

MCSizes == {0, 3, 7}
Saved(key, size) == [key |-> key, size |-> size, value |-> v]
One == [Formatted EXCEPT ![0] = Saved(k1, 3)]
Other == [Formatted EXCEPT ![1] = Saved(k2, 2)]
Twice == [i \in Slots |-> Saved(k1, 1)]
TooMuch == [i \in Slots |-> IF i = 0 THEN Saved(k1, 3) ELSE Saved(k2, 3)]

\* Files a first start may find: none, good images, a directory that names a
\* file twice, one that holds more than fits, and bytes that do not parse.
AnyFiles == {Absent, One, Other, Twice, TooMuch, Damaged}
\* The same with nothing damaged.
GoodFiles == {Absent, One, Other}

\* A disk whose reads may fail begins with good files: the README has the case
\* that the code does not survive.
MCFirstDisks == [primary : AnyFiles, backup : AnyFiles, reads_fail : {FALSE}]
                \cup [primary : GoodFiles, backup : GoodFiles, reads_fail : {TRUE}]
=============================================================================
