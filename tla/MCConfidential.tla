--------------------------- MODULE MCConfidential ---------------------------
(* Instances of Confidential for TLC.                                      *)
EXTENDS Confidential

(* Two inputs, one with a blinding factor of zero: a transparent one.      *)
MCInputs == { << <<2, 6>>, <<4, 0>> >> }

(* Commitments to other amounts with a blinding that is drawn.              *)
MCOthers == { <<5, 2>>, <<5, 0>> }

(* y^2 = x^3 + 14 modulo 19 from the point (5, 5): r is 0 for 2*G and wraps *)
(* for 3*G.                                                                *)
MCAbscissa == <<5, 13, 17, 16, 15, 10, 10, 15, 16, 17, 13, 5>>

(* A nonce that is good at once, one that is drawn again (and, for one of   *)
(* the digests, leads to an s of zero), two that both give an r of zero.    *)
MCNonces == { <<3, 2>>, <<2, 5>>, <<2, 11>> }
=============================================================================
