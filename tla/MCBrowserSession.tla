-------------------------- MODULE MCBrowserSession --------------------------
(***************************************************************************)
(* An instance of BrowserSession for TLC: two accounts, three calls.       *)
(***************************************************************************)
EXTENDS BrowserSession

CONSTANTS alice, bob, q1, q2, q3, nobody, none

MCUsers == {alice, bob}
MCCalls == {q1, q2, q3}
=============================================================================
