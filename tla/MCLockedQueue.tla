---------------------------- MODULE MCLockedQueue ----------------------------
(* LockedQueue with the callers of the links queue: central's              *)
(* unknown_links thread and its links_attribution thread.                  *)
EXTENDS LockedQueue
=============================================================================
