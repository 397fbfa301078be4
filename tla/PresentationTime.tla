-------------------------- MODULE PresentationTime --------------------------
(***************************************************************************)
(* getPTSUs of MainActivity.java and EchoActivity.java: the timestamp of   *)
(* the k-th ten-millisecond frame.  k * (480 * 1000 * 1000) is an int      *)
(* product, so it wraps at 2^32 before it is divided by 48000.             *)
(***************************************************************************)
EXTENDS Integers

\* 480000000 = 234375 * 2^11: what the wrap leaves is a multiple of 2^11.
Modulus == 2097152                        \* 2^32 / 2^11

Signed(x) == IF x >= Modulus \div 2 THEN x - Modulus ELSE x

\* Division of ints truncates towards zero; 2^11 / 48000 = 16 / 375.
GetPTSUs(k) ==
    LET product == Signed((k * 234375) % Modulus)
    IN  IF product >= 0 THEN (product * 16) \div 375
        ELSE 0 - ((0 - product) * 16) \div 375
=============================================================================
