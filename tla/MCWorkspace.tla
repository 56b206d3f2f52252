---------------------------- MODULE MCWorkspace ----------------------------
(* The workspace module on small sets, for the runs MCWorkspace*.cfg.      *)
EXTENDS Workspace, TLC

CONSTANTS ann, bob, ws1, inv1, inv2, call1, call2

MCUsers == {ann, bob}
MCInvitations == {inv1, inv2}
MCCalls == {call1, call2}

\* Nothing tells accounts, invitation ids or calls apart.
MCSymmetry ==
  Permutations(MCUsers) \union Permutations(MCInvitations) \union Permutations(MCCalls)
=============================================================================
