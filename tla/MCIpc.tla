--------------------------------- MODULE MCIpc ---------------------------------
(******************************************************************************)
(* Small instances of the message passing for TLC.                            *)
(******************************************************************************)
EXTENDS IpcRendezvous

\* No guard reads a buffer's contents: states that differ in nothing else have
\* the same successors but for the buffers.
WithoutBuffers == <<procVars, listVars, callVars>>

\* With three processes, 1 serves 0 while 2 competes with it for the list of 1.
ServedInTurn == ServesInTurn(1, 0)

================================================================================
