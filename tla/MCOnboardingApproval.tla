------------------------ MODULE MCOnboardingApproval ------------------------
(***************************************************************************)
(* Small instances of OnboardingApproval: one or two sessions, two or      *)
(* three handler threads, and a draft that validates once the change c1 is *)
(* made.                                                                   *)
(***************************************************************************)
EXTENDS OnboardingApproval, TLC

CONSTANTS s1, s2, t1, t2, t3, c1, c2

MCSymmetry == Permutations(Thread) \cup Permutations(Session)
=============================================================================
