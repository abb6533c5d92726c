--------------------------- MODULE MCDocumentFetch ---------------------------
(* Small instances of DocumentFetch for TLC. *)
EXTENDS DocumentFetch

Content(huge, is, first, second) == [huge |-> huge, is |-> is, first |-> first, second |-> second]
\* A good object of two types, one that only the fallback reads, one that
\* nothing reads, one that is too large, and a workbook.
MCContents ==
    {Content(FALSE, "docx", "text", "text"), Content(FALSE, "text", "text", "text"),
     Content(FALSE, "pdf", "blank", "text"), Content(FALSE, "docx", "raises", "raises"),
     Content(TRUE, "text", "text", "text"), Content(FALSE, "xlsx", "text", "text")}
=============================================================================
