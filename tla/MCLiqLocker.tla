------------------------------- MODULE MCLiqLocker -------------------------------
(***************************************************************************)
(* Values for the constants of LiqLocker that a .cfg cannot spell.          *)
(***************************************************************************)
EXTENDS LiqLockerViews

NoKickSettings == {}

\* One setting the contract takes and two that are out of its limits.
SomeKickSettings == {<<2, 3>>, <<3, 2>>, <<1, 1>>}
=================================================================================
