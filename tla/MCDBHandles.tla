---------------------------- MODULE MCDBHandles ----------------------------
(* Two databases for DBHandles, in the order of dbm_api.h. *)
EXTENDS DBHandles

CONSTANTS lastseen, locks

TwoDbs == <<lastseen, locks>>
=============================================================================
