------------------------ MODULE MCIntegerConversion -------------------------
(***************************************************************************)
(* IntegerConversion on a 32-bit platform, where size_t has four bytes and *)
(* is converted by hand, with words of 4, 8, 16 and 32 values for the four *)
(* sizes.                                                                  *)
(***************************************************************************)
EXTENDS IntegerConversion

MCTypeSizes ==
    [t \in 1 .. 10 \cup {15} |->
        CASE t \in {1, 2}     -> 1
          [] t \in {5, 6}     -> 2
          [] t \in {9, 10}    -> 8
          [] OTHER            -> 4]

MCHalf == [s \in {1, 2, 4, 8} |-> CASE s = 1 -> 2 [] s = 2 -> 4 [] s = 4 -> 8 [] s = 8 -> 16]
=============================================================================
