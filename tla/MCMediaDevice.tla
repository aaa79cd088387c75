---------------------------- MODULE MCMediaDevice ----------------------------
(* A small instance of MediaDevice for TLC. *)
EXTENDS MediaDevice

\* An offset inside the song with an end, and a header without a number.
RangeSet == {[suffix |-> FALSE, numbers |-> n] : n \in {<<6, 7>>, <<>>}}

=============================================================================
