----------------------------- MODULE MCDiskIO -----------------------------
(* Three requests on two sectors: sfs_rblock and sfs_wblock of sector 0,   *)
(* and a raw read or write of both sectors.                                *)
EXTENDS DiskIO, TLC

CONSTANTS dr, dw, dd

MCFirst == dr :> 0 @@ dw :> 0 @@ dd :> 0
MCCount == dr :> 1 @@ dw :> 1 @@ dd :> 2
RawWrites == dr :> "read" @@ dw :> "write" @@ dd :> "write"
RawReads == dr :> "read" @@ dw :> "write" @@ dd :> "read"
MCOps == {RawWrites, RawReads}
=============================================================================
