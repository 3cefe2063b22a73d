-------------------------- MODULE TableRefinement ---------------------------
(* The paged, indexed table implements the relation made of its rows. *)
EXTENDS TableStore

Table == INSTANCE LogicalTable WITH rows <- FlattenSeq(pages)

\* Each statement shows as one step on the rows, and only if all of it succeeds,
\* while pages are filled, rebuilt and dropped beneath.
ImplementsRelation == Table!Spec
=============================================================================
