----------------------------------- MODULE P9 -----------------------------------
(***************************************************************************)
(* The 9P file server behind the VirtIO 9P device, in its two builds: the  *)
(* native one (p9.rs) keeps host files open, the WASM one (p9_wasm.rs)     *)
(* reads a whole file at Tlopen, collects writes and hands them to the     *)
(* JavaScript host at Tclunk.  Both get the same requests here, each with  *)
(* its own fid table and its own copy of the host directory.  Queue and    *)
(* registers are modelled in VirtioQueue.                                  *)
(*                                                                         *)
(* A file is a sequence of chunks.  A handler that fails answers with an   *)
(* empty body; only an unknown type gets Rlerror (Tlcreate, in WASM).      *)
(***************************************************************************)
EXTENDS Integers, Sequences

CONSTANTS
    Fids,       \* fids the guest uses
    NameLists,  \* the component lists it walks
    MaxChunks,  \* bound on offsets
    MaxWrites   \* bound on Twrite and Tlcreate requests

VARIABLES
    host,       \* host[b]: path -> file contents, for the files of the directory
    fids,       \* fids[b]: fid -> FidEntry, for the fids in the table
    session,    \* history: fid -> the writes of a guest that opened a file to write it
    stored,     \* history: path -> what a finished session wrote
    writes      \* requests that write, so far

p9Vars == <<host, fids, session, stored, writes>>

Native == "native"
Wasm == "wasm"
Builds == {Native, Wasm}

\* The exported directory: one file; other names may be created.
Dirs == {<<>>}
OldFile == <<0, 0>>

NoSession == [on |-> FALSE]
NoData == [on |-> FALSE]
Entry(path) ==
    [path |-> path, dir |-> path \in Dirs, mode |-> "closed", data |-> NoData, buf |-> <<>>]
Exists(b, path) == path \in Dirs \/ path \in DOMAIN host[b]
Bound(b, f) == f \in DOMAIN fids[b]
Bind(fn, x, v) == [y \in DOMAIN fn \cup {x} |-> IF y = x THEN v ELSE fn[y]]
Unbind(fn, x) == [y \in DOMAIN fn \ {x} |-> fn[y]]

P9Init ==
    /\ host = [b \in Builds |-> [p \in {<<"f">>} |-> OldFile]]
    /\ fids = [b \in Builds |-> [f \in {} |-> NoSession]]
    /\ session = [f \in Fids |-> NoSession]
    /\ stored = [p \in {} |-> NoSession]
    /\ writes = 0

\* A session stops being a plain one when a second fid names its file.
Alone(s) ==
    [f \in Fids |->
        IF s[f].on /\ \E g \in Fids \ {f} : \E b \in Builds :
                          g \in DOMAIN fids'[b] /\ fids'[b][g].path = s[f].path
        THEN [s[f] EXCEPT !.plain = FALSE] ELSE s[f]]
Drop(f) == [session EXCEPT ![f] = NoSession]

-----------------------------------------------------------------------------
\* Tattach: the fid names the root, whatever it named before.
Attach(f) ==
    /\ fids' = [b \in Builds |-> Bind(fids[b], f, Entry(<<>>))]
    /\ session' = Alone(Drop(f))
    /\ UNCHANGED <<host, stored, writes>>

\* Twalk: components are appended until one does not exist; the new fid is made
\* if at least one did, with the missing component in its path.
WalkTo(b, from, names) ==
    LET found == {k \in 0 .. Len(names) :
                    \A j \in 1 .. k : Exists(b, from \o SubSeq(names, 1, j))}
        n == CHOOSE k \in found : \A j \in found : j <= k
    IN [made |-> n > 0 \/ names = <<>>,
        path |-> from \o SubSeq(names, 1, IF n < Len(names) THEN n + 1 ELSE n)]

Walk(f, new, names) ==
    /\ \A b \in Builds : Bound(b, f)
    /\ fids' = [b \in Builds |->
                  LET w == WalkTo(b, fids[b][f].path, names)
                  IN IF w.made THEN Bind(fids[b], new, Entry(w.path)) ELSE fids[b]]
    /\ session' = Alone(IF fids' = fids THEN session ELSE Drop(new))
    /\ UNCHANGED <<host, stored, writes>>

\* Mutant: a file opened to be written keeps its old contents.
OpenNativeNoTruncate(e, flags) ==
    LET h == host[Native]
        there == e.path \in DOMAIN h
    IN IF e.dir \/ Len(e.path) > 1 \/ (flags = "r" /\ ~there)
       THEN [host |-> h, entry |-> e]
       ELSE [host |-> IF there THEN h ELSE Bind(h, e.path, <<>>),
             entry |-> [e EXCEPT !.mode = flags]]

\* Tlopen, native: O_WRONLY truncates or creates, O_RDWR creates.  A path below
\* a file cannot be opened.
OpenNative(e, flags) ==
    LET h == host[Native]
        there == e.path \in DOMAIN h
    IN IF e.dir \/ Len(e.path) > 1 \/ (flags = "r" /\ ~there)
       THEN [host |-> h, entry |-> e]
       ELSE [host |-> IF flags = "w" \/ ~there THEN Bind(h, e.path, <<>>) ELSE h,
             entry |-> [e EXCEPT !.mode = flags]]

\* Tlopen, WASM: only a read-only open does something, it takes a copy.
OpenWasm(e, flags) ==
    IF ~e.dir /\ flags = "r" /\ e.path \in DOMAIN host[Wasm]
    THEN [e EXCEPT !.data = [on |-> TRUE, bytes |-> host[Wasm][e.path]]] ELSE e

Lopen(f, flags) ==
    /\ \A b \in Builds : Bound(b, f)
    /\ LET n == OpenNative(fids[Native][f], flags)
           path == fids[Native][f].path
       IN /\ host' = [host EXCEPT ![Native] = n.host]
          /\ fids' = [fids EXCEPT ![Native][f] = n.entry, ![Wasm][f] = OpenWasm(@, flags)]
          /\ stored' = IF flags = "r" THEN stored ELSE Unbind(stored, path)
          /\ session' = Alone([session EXCEPT ![f] =
                IF flags = "w" /\ ~fids[Native][f].dir /\ n.entry.mode = "w"
                THEN [on |-> TRUE, path |-> path, chunks |-> <<>>,
                      plain |-> ~@.on /\ fids[Wasm][f].buf = <<>> /\ fids[Wasm][f].path = path
                                /\ path \in DOMAIN host[Wasm]]
                ELSE IF @.on THEN [@ EXCEPT !.plain = FALSE] ELSE @])
    /\ UNCHANGED writes

\* Tlcreate, native only: created or truncated, and open.
Lcreate(f, name) ==
    /\ writes < MaxWrites /\ writes' = writes + 1
    /\ Bound(Native, f) /\ fids[Native][f].path = <<>>
    /\ LET path == <<name>> IN
       /\ host' = [host EXCEPT ![Native] = Bind(@, path, <<>>)]
       /\ fids' = [fids EXCEPT ![Native][f] =
                     [@ EXCEPT !.path = path, !.dir = FALSE, !.mode = "w"]]
       /\ stored' = Unbind(stored, path)
       /\ session' = [g \in Fids |-> IF session[g].on /\ session[g].path = path
                                     THEN [session[g] EXCEPT !.plain = FALSE] ELSE session[g]]

Put(file, off, chunk) ==
    [k \in 1 .. IF off + 1 > Len(file) THEN off + 1 ELSE Len(file) |->
        IF k = off + 1 THEN chunk ELSE IF k <= Len(file) THEN file[k] ELSE 0]

\* Twrite, native: at the offset, if the file is open for it.
WriteNative(f, off, chunk) ==
    LET e == fids[Native][f]
    IN IF Bound(Native, f) /\ e.mode \in {"w", "rw"}
       THEN [host[Native] EXCEPT ![e.path] = Put(@, off, chunk)] ELSE host[Native]

\* Twrite, WASM: whatever the offset, appended to the fid's buffer.
WriteWasm(f, chunk) ==
    IF Bound(Wasm, f) THEN [fids[Wasm] EXCEPT ![f].buf = Append(@, chunk)] ELSE fids[Wasm]

Write(f, off, chunk) ==
    /\ writes < MaxWrites /\ writes' = writes + 1
    /\ \E b \in Builds : Bound(b, f)
    /\ host' = [host EXCEPT ![Native] = WriteNative(f, off, chunk)]
    /\ fids' = [fids EXCEPT ![Wasm] = WriteWasm(f, chunk)]
    /\ LET s == session[f]
       IN session' = [session EXCEPT ![f] =
                        IF ~s.on THEN s
                        ELSE IF off = Len(s.chunks) THEN [s EXCEPT !.chunks = Append(s.chunks, chunk)]
                        ELSE [s EXCEPT !.plain = FALSE]]
    /\ stored' = IF Bound(Native, f) THEN Unbind(stored, fids[Native][f].path) ELSE stored

\* Tclunk: WASM hands a non-empty buffer to the host, which replaces the file.
FlushWasm(f) ==
    LET e == fids[Wasm][f]
    IN IF Bound(Wasm, f) /\ e.buf # <<>> /\ ~e.dir THEN Bind(host[Wasm], e.path, e.buf) ELSE host[Wasm]

Clunk(f) ==
    /\ \E b \in Builds : Bound(b, f)
    /\ host' = [host EXCEPT ![Wasm] = FlushWasm(f)]
    /\ fids' = [b \in Builds |-> Unbind(fids[b], f)]
    /\ LET s == session[f]
           gone == IF Bound(Wasm, f) /\ fids[Wasm][f].buf # <<>>
                   THEN Unbind(stored, fids[Wasm][f].path) ELSE stored
       IN stored' = IF s.on /\ s.plain /\ s.chunks # <<>> THEN Bind(gone, s.path, s.chunks) ELSE gone
    /\ session' = Drop(f)
    /\ UNCHANGED writes

\* Device reset: native empties its fid table, WASM keeps its own.
P9Reset ==
    /\ fids' = [fids EXCEPT ![Native] = [f \in {} |-> NoSession]]
    /\ session' = [f \in Fids |-> NoSession]
    /\ UNCHANGED <<host, stored, writes>>

P9Next ==
    \/ P9Reset
    \/ \E f \in Fids :
          \/ Attach(f) \/ Clunk(f)
          \/ \E new \in Fids, names \in NameLists : Walk(f, new, names)
          \/ \E flags \in {"r", "w", "rw"} : Lopen(f, flags)
          \/ \E name \in {"f", "g"} : Lcreate(f, name)
          \/ \E off \in 0 .. MaxChunks - 1 : Write(f, off, writes + 1)

P9Spec == P9Init /\ [][P9Next]_p9Vars

-----------------------------------------------------------------------------
\* Tread: what a fid reads, from its first chunk on.
ReadNative(f) ==
    LET e == fids[Native][f]
    IN IF e.mode \in {"r", "rw"} THEN host[Native][e.path] ELSE <<>>
ReadWasm(f) == IF fids[Wasm][f].data.on THEN fids[Wasm][f].data.bytes ELSE <<>>

\* A guest that opens an existing file to write it, alone, writes it from the
\* start without gaps and closes it, finds on the host exactly what it wrote, and
\* whoever opens the file afterwards reads that: in the native build, where every
\* write went to the file, and in the WASM build, where the file went at the
\* clunk and is read into a copy at the open.
StoredAsWritten ==
    \A p \in DOMAIN stored :
        /\ \A b \in Builds : p \in DOMAIN host[b] /\ host[b][p] = stored[p]
        /\ \A f \in Fids :
              (\A b \in Builds : Bound(b, f) /\ fids[b][f].path = p) =>
                  /\ fids[Native][f].mode = "r" => ReadNative(f) = stored[p]
                  /\ fids[Wasm][f].data.on => ReadWasm(f) = stored[p]

=============================================================================
