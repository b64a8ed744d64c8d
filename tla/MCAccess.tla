------------------------------ MODULE MCAccess ------------------------------
(***************************************************************************)
(* GatewayAccess for TLC.  Each scene explores one side of it: the locks   *)
(* of handles that are open already, the opens, renames and copies of      *)
(* files, or the named streams of a file.                                  *)
(***************************************************************************)
EXTENDS GatewayAccess

CONSTANTS h1, h2, a, b, s1, s2

VARIABLE scene

MCKeys == {a, b} \X {s1, s2, Main}

MCRequests ==
  {[disp |-> "open", access |-> {"read"}, share |-> {"read", "write", "delete"}],
   [disp |-> "openif", access |-> {"read", "write"}, share |-> {"read", "write", "delete"}],
   [disp |-> "open", access |-> {"read", "write", "delete"}, share |-> {"read"}],
   [disp |-> "create", access |-> {"write"}, share |-> {"read", "delete"}],
   [disp |-> "overwrite", access |-> {"write", "delete"}, share |-> Uses],
   [disp |-> "overwriteif", access |-> {"write"}, share |-> Uses]}

\* Handle h1 has file a open.
OpenInit ==
  /\ opens = [k \in Keys |-> IF k = <<a, Main>> THEN {h1} ELSE {}]
  /\ access = [h \in Handles |-> IF h = h1 THEN {"read"} ELSE {}]
  /\ share = [h \in Handles |-> IF h = h1 THEN Uses ELSE {}]
  /\ tree = [p \in Paths |-> IF p = a THEN [NoFile EXCEPT !.there = TRUE] ELSE NoFile]
  /\ handle = [h \in Handles |-> IF h = h1 THEN [Closed EXCEPT !.pc = "open", !.path = a] ELSE Closed]
  /\ writes = 0 /\ breach = {}
  /\ saved = [p \in Paths |-> NoStreams]

MCInit ==
  /\ LockInit
  /\ scene \in {"locks", "opens", "copies", "streams"}
  /\ IF scene = "locks" THEN OpenInit ELSE SmbInit
  /\ tree[a].there /\ ~tree[b].there

InScene ==
  /\ scene = "locks" =>
       \A f \in Files, o \in Owners : ranges'[f][o] # <<>> =>
          \/ f = a /\ o \in {<<"smb", h1>>, <<"nfs", h1>>}
          \/ /\ f = b /\ o = <<"nfs", h1>>
             /\ ranges'[f][o] = <<[start |-> 0, end |-> EOF, mode |-> "shared"]>>
  /\ scene = "opens" => \A h \in Handles :
       /\ handle'[h].stream = Main /\ handle'[h].pc # "copy"
       /\ handle'[h].disp \notin {"openif", "overwriteif"}
       /\ handle'[h2].file # "ro" /\ ~handle'[h].copied.set
       /\ writes' = writes /\ \A p \in Paths :
            /\ tree'[p].data \in {<<>>, tree[a].data, tree[b].data}
            /\ tree[p].staged # "no" => tree'[p] # [tree[p] EXCEPT !.staged = "no"]
  /\ scene = "copies" => \A h \in Handles :
       /\ handle'[h].stream = Main /\ handle'[h].pc # "rename"
       /\ handle'[h2].pc # "copy" /\ handle'[h].file # "ro"
       /\ handle'[h1].pc # "closed" => handle'[h1].path = b
       /\ \A p \in Paths : tree[p].there => tree'[p].there
       /\ \A p \in Paths : Len(tree'[p].data) \in {0, Len(tree[p].data), MaxChunks}
       /\ writes' <= 1
       /\ handle'[h].pc = "reserve" => handle'[h].disp = "openif"
  /\ scene = "streams" => \A h \in Handles : handle'[h].pc # "closed" =>
       /\ handle'[h].path = a /\ tree'[a].data \in {<<>>, tree[a].data}
       /\ handle'[h].pc \notin {"copy", "rename"}
       /\ handle'[h].pc = "reserve" => handle'[h].disp \in
            IF handle'[h].stream = Main THEN {"overwriteif"} ELSE {"openif", "overwrite"}

\* A race that is known to break a property is not followed further.
Explored == breach = {}

MCNext ==
  /\ \/ scene = "locks" /\ Locking
     \/ scene # "locks" /\ SmbCall /\ UNCHANGED lockVars
     \/ Closing
  /\ InScene
  /\ UNCHANGED scene

MCSpec == MCInit /\ [][MCNext]_<<accessVars, scene>>

=============================================================================
