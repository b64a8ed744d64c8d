--------------------------- MODULE GatewayAccess ---------------------------
(***************************************************************************)
(* Who may use a file, and how: the SMB share with its share modes, and    *)
(* the lock table the SMB and NFS servers share.  An SMB lock is owned by  *)
(* the handle that took it; the SMB server (third_party/go-smb-server)     *)
(* names the file by the handle's path and releases the owner once the     *)
(* handle is closed.  NFS owners come and go with their clients.           *)
(***************************************************************************)
EXTENDS LockManager, SmbBackend

ASSUME AccessAssumption == Files = Paths /\ OwnerIds = Handles /\ Clients = {"smb", "nfs"}

AccessInit == LockInit /\ SmbInit

\* handleLock of the SMB server, for an open handle.
SmbLock(h) ==
  /\ handle[h].pc = "open"
  /\ \E r \in LockRanges :
        \/ \E mode \in Modes : Lock(<<"smb", h>>, handle[h].path, r, mode)
        \/ Unlock(<<"smb", h>>, handle[h].path, r)
  /\ UNCHANGED <<shareVars, smbVars>>

\* Mutant: closing a handle leaves its locks.
SmbClose_KeepsLocks(h, delete) == Close(h, delete) /\ UNCHANGED lockVars

\* handleClose of the SMB server.
SmbClose(h, delete) == Close(h, delete) /\ ReleaseOwner(<<"smb", h>>)

\* NFS lock owners: LOCK and LOCKU, RELEASE_LOCKOWNER, and a client that expires.
NfsLock(i) ==
  /\ \E f \in Files, r \in LockRanges :
        \/ \E mode \in Modes : Lock(<<"nfs", i>>, f, r, mode)
        \/ Unlock(<<"nfs", i>>, f, r)
  /\ UNCHANGED <<shareVars, smbVars>>

NfsRelease(i) == ReleaseOwner(<<"nfs", i>>) /\ UNCHANGED <<shareVars, smbVars>>

NfsExpire == ReleaseClient("nfs") /\ UNCHANGED <<shareVars, smbVars>>

Locking ==
  \/ \E h \in Handles : SmbLock(h)
  \/ \E i \in OwnerIds : NfsLock(i) \/ NfsRelease(i)
  \/ NfsExpire

Closing == \E h \in Handles, delete \in BOOLEAN : SmbClose(h, delete)

AccessNext == (SmbCall /\ UNCHANGED lockVars) \/ Locking \/ Closing

accessVars == <<lockVars, shareVars, smbVars>>

AccessSpec == AccessInit /\ [][AccessNext]_accessVars

AccessTypeOK == LockTypeOK /\ SmbTypeOK

\* "closing a handle or ending a session releases what it held"
\* (ARCHITECTURE.md): a closed handle owns no lock of any file.
ClosedOwnsNoLock ==
  \A h \in Handles : handle[h].pc = "closed" => \A f \in Files : ranges[f][<<"smb", h>>] = <<>>

=============================================================================
