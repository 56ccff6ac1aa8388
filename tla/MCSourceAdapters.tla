--------------------------- MODULE MCSourceAdapters ---------------------------
(* Pages of two and three records, so that short and last pages differ in size. *)
EXTENDS SourceAdapters

MCPageSize == [a \in Adapter |-> IF a \in {"wos_starter", "ieee_xplore"} THEN 3 ELSE 2]
=============================================================================
