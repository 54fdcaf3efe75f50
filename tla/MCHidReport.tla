----------------------------- MODULE MCHidReport -----------------------------
(* Instances of HidReport for TLC. *)
EXTENDS HidReport

\* A report of the controller: the buttons in bytes 2, 3 and 4, every other
\* byte told apart by its value.
Raw(dpad, b, ps) ==
    [i \in 0..25 |-> CASE i = 0 -> 1
                       [] i = 2 -> dpad * 16 + b[1]
                       [] i = 3 -> b[2] * 16 + b[3]
                       [] i = 4 -> ps
                       [] OTHER -> 100 + i]
\* One button of each half, all, none.
SomeButtons == {<<1, 2, 4>>, <<2, 4, 8>>, <<4, 8, 1>>, <<8, 1, 2>>,
                <<15, 0, 15>>, <<0, 15, 0>>}
SomeReports == {Raw(d, b, ps) : d \in 0..15, b \in SomeButtons, ps \in {0, 1}}

SomeBuffers == {[i \in Places |-> b] : b \in {0, 255}}
=============================================================================
