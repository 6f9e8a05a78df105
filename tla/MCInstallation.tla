------------------------------ MODULE MCInstallation ------------------------------
(* A small instance of Installation for TLC. *)
EXTENDS Installation

CONSTANTS main, other, primary, work

\* The default's name with no workspace, at its own and at another path; another name with one.
SomeCreations == {<<primary, main, FALSE>>, <<primary, other, FALSE>>, <<work, other, TRUE>>}
===================================================================================
