-------------------------- MODULE MCReleasePromotion --------------------------
(***************************************************************************)
(* Two tested candidates of one version that share their wheel, and one    *)
(* whose tests failed.                                                     *)
(***************************************************************************)
EXTENDS ReleasePromotion

CONSTANTS c1, c2, failing, w, s1, s2, m1, m2

Distribution(sdist, sums) ==
    [n \in Names |-> CASE n = "wheel" -> w [] n = "sdist" -> sdist
                       [] n = "SHA256SUMS" -> sums [] OTHER -> None]

MCFiles ==
    [c \in Candidates |-> IF c = c2 THEN Distribution(s2, m2) ELSE Distribution(s1, m1)]

MCEvidence ==
    [c \in Candidates |->
      [tests |-> 40, failures |-> IF c = failing THEN 1 ELSE 0, errors |-> 0]]
=============================================================================
