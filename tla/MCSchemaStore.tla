--------------------------- MODULE MCSchemaStore ---------------------------
(* A field, and a list that needs it, of one command.                       *)
EXTENDS SchemaStore, TLC

FieldAndList == {"rank", "rows"}
RowsOfRank == "rows" :> "rank"
FewDocuments ==
    {"rank" :> 1, "rank" :> Illegal, "rows" :> 1, Empty, Blank}
=============================================================================
