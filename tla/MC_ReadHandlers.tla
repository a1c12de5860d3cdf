---------------------------- MODULE MC_ReadHandlers ----------------------------
(***************************************************************************)
(* A small instance of ReadHandlers for TLC: two requests, one event of    *)
(* another handler, two of the $SYS topics, a history of one event at most. *)
(***************************************************************************)
EXTENDS ReadHandlers

CONSTANTS e1

\* No filter, and a filter that leaves out one event.
SomeFilters == {Events, Events \ {e1}}

===============================================================================
