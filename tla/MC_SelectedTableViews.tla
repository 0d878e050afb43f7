----------------------- MODULE MC_SelectedTableViews -----------------------
(***************************************************************************)
(* Instance of SelectedTableViews for TLC: a streaming table, a Hive      *)
(* table, and up to two requests of each panel in flight, so an answer for *)
(* the previous selection can arrive after the current one.               *)
(***************************************************************************)
EXTENDS SelectedTableViews

MCTables == {"kafka_t", "hive_t"}
MCStreaming == {"kafka_t"}
=============================================================================
