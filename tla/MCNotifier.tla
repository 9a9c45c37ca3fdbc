------------------------------ MODULE MCNotifier ------------------------------
(* Constants for checking Notifier with TLC. *)
EXTENDS Notifier

CONSTANTS alarm, position, d1, d2, h1, h2

TwoEvents  == {alarm, position}
TwoDialogs == {d1, d2}
OneDialog  == {d1}
TwoHosts   == {h1, h2}
OneHost    == {h1}
===============================================================================
