--------------------------- MODULE MCStorageOwner ---------------------------
(* Small instances of StorageOwner for TLC. *)
EXTENDS StorageOwner, TLC

\* The diagnostic task lends its two buffers and can still send an abort.
MCLimit == "display" :> 1 @@ "refresh" :> 1 @@ "diagnostic" :> 3
MCBuffers == "display" :> {"io"} @@ "refresh" :> {"index"}
             @@ "diagnostic" :> {"transfer0", "transfer1"}
MCQuiet == "display" :> {"Reader"} @@ "refresh" :> {}
           @@ "diagnostic" :> {"Diagnostic"}
\* The display task also loads menu windows from the library index.
MCScrolling == "display" :> {"Reader", "Library"} @@ "refresh" :> {}
               @@ "diagnostic" :> {}
=============================================================================
