-------------------------- MODULE EvidenceDashboard --------------------------
(***************************************************************************)
(* Module 15: build_dashboard_evidence gathers the mandatory artifacts of  *)
(* the other modules in one snapshot, and the server presents it after it  *)
(* has compared the checksums in it with the artifacts.  Both take one     *)
(* file at a time, while the programs of Modules 12 to 14A may write.      *)
(*                                                                         *)
(* The content of an artifact is a number, which is also its checksum; 0   *)
(* is no file.  A server in service answers from the snapshot it was       *)
(* started with and looks at no file again; its pages are left out.        *)
(***************************************************************************)
EXTENDS Naturals, Sequences

LOCAL INSTANCE FiniteSetsExt

CONSTANTS
  HashOrder,      \* MANDATORY_ARTIFACTS
  ReadOrder,      \* those of them that build_snapshot reads, in its order
  Database,       \* the artifact that is a database
  MaxContent,     \* bound: contents of an artifact
  Compatible,     \* contents of the database with schema version 10
  MaxRewrites     \* bound: how often artifacts change, taken together

Sources == {HashOrder[i] : i \in 1 .. Len(HashOrder)}

Read == {ReadOrder[i] : i \in 1 .. Len(ReadOrder)}

ASSUME DashboardAssumption ==
  /\ HashOrder \in Seq(Sources) /\ ReadOrder \in Seq(Sources)
  /\ Read \subseteq Sources /\ Database \in Read
  /\ Compatible \subseteq 1 .. MaxContent /\ MaxRewrites \in Nat

VARIABLES
  contents,    \* of the artifacts
  changes,     \* how often each has changed: history
  builder,     \* build_dashboard_evidence, where it is and what it has gathered
  file,        \* evidence_snapshot.json
  server       \* the server, where it is, and its snapshot

dashboardVars == <<contents, changes, builder, file, server>>

NoFile == [kind |-> "missing"]

Torn == [kind |-> "torn"]

\* source_checksums, and what sections and values were read from; as history, the
\* changes before the first checksum, and the artifacts at the last.
EmptySnapshot ==
  [kind |-> "snapshot", sums |-> [s \in Sources |-> 0], data |-> [s \in Read |-> 0],
   since |-> [s \in Sources |-> 0], moment |-> [s \in Sources |-> 0]]

NoBuild == [place |-> "idle", next |-> 1, stale |-> FALSE, snapshot |-> EmptySnapshot]

Down == [place |-> "down", next |-> 1, snapshot |-> EmptySnapshot]

-----------------------------------------------------------------------------
(* The artifacts.                                                          *)

\* A program replaces an artifact, or removes it before it writes another.
Rewrite(s) ==
  /\ MapThenSumSet(LAMBDA t : changes[t], Sources) < MaxRewrites
  /\ \E content \in (0 .. MaxContent) \ {contents[s]} :
       contents' = [contents EXCEPT ![s] = content]
  /\ changes' = [changes EXCEPT ![s] = @ + 1]
  /\ UNCHANGED <<builder, file, server>>

\* _source: an artifact that is missing raises.
Hashable(s) == contents[s] # 0

\* validate_snapshot, of one artifact: it is there and its checksum is the same.
Matches(snapshot, s) == Hashable(s) /\ contents[s] = snapshot.sums[s]

SchemaMatches(snapshot) == snapshot.data[Database] \in Compatible

-----------------------------------------------------------------------------
(* The builder.                                                            *)

\* Mutant: the artifacts are hashed after they have been read.
PassesReversed == <<"read", "hash", "truncate">>

\* build_snapshot: all artifacts are hashed, then they are read.
Passes == <<"hash", "read", "truncate">>

After(place) == Passes[1 + CHOOSE i \in 1 .. 2 : Passes[i] = place]

Gathers == [NoBuild EXCEPT !.place = Passes[1]]

\* A snapshot that is there is validated first, unless --force is given; one
\* that cannot be parsed raises.
BuilderStarts(force) ==
  /\ builder.place = "idle"
  /\ force \/ file # Torn
  /\ builder' =
       IF force \/ file = NoFile
         THEN Gathers
         ELSE [NoBuild EXCEPT !.place = "check", !.stale = ~SchemaMatches(file)]
  /\ UNCHANGED <<contents, changes, file, server>>

\* One that is valid raises in the end.  Nobody else writes the file.
BuilderChecks ==
  /\ builder.place = "check"
  /\ LET stale == builder.stale \/ ~Matches(file, HashOrder[builder.next])
     IN  builder' =
           IF builder.next < Len(HashOrder)
             THEN [builder EXCEPT !.next = @ + 1, !.stale = stale]
           ELSE IF stale THEN Gathers
           ELSE NoBuild
  /\ UNCHANGED <<contents, changes, file, server>>

BuilderHashes ==
  /\ builder.place = "hash"
  /\ LET s    == HashOrder[builder.next]
         last == builder.next = Len(HashOrder)
     IN  /\ Hashable(s)
         /\ builder' =
              [builder EXCEPT !.snapshot.sums[s] = contents[s],
                 !.snapshot.since = IF builder.next = 1 THEN changes ELSE @,
                 !.snapshot.moment = IF last THEN contents ELSE @,
                 !.place = IF last THEN After("hash") ELSE @,
                 !.next = IF last THEN 1 ELSE @ + 1]
  /\ UNCHANGED <<contents, changes, file, server>>

BuilderReads ==
  /\ builder.place = "read"
  /\ LET s    == ReadOrder[builder.next]
         last == builder.next = Len(ReadOrder)
     IN  /\ Hashable(s)
         /\ builder' =
              [builder EXCEPT !.snapshot.data[s] = contents[s],
                 !.place = IF last THEN After("read") ELSE @,
                 !.next = IF last THEN 1 ELSE @ + 1]
  /\ UNCHANGED <<contents, changes, file, server>>

\* write_text empties the file before it writes.
BuilderTruncates ==
  /\ builder.place = "truncate"
  /\ file' = Torn
  /\ builder' = [builder EXCEPT !.place = "write"]
  /\ UNCHANGED <<contents, changes, server>>

BuilderWrites ==
  /\ builder.place = "write"
  /\ file' = builder.snapshot
  /\ builder' = NoBuild
  /\ UNCHANGED <<contents, changes, server>>

\* It is stopped, or raises: an artifact is missing or half-written, or the
\* database fails its checks.
BuilderEnds ==
  /\ builder.place # "idle"
  /\ builder' = NoBuild
  /\ UNCHANGED <<contents, changes, file, server>>

-----------------------------------------------------------------------------
(* The server.                                                             *)

\* The file is parsed, and its schema version compared.
ServerStarts ==
  /\ server.place = "down"
  /\ file \notin {NoFile, Torn}
  /\ SchemaMatches(file)
  /\ server' = [place |-> "validate", next |-> 1, snapshot |-> file]
  /\ UNCHANGED <<contents, changes, builder, file>>

\* The first artifact that differs keeps it from being started.
ServerValidates ==
  /\ server.place = "validate"
  /\ server' =
       IF ~Matches(server.snapshot, HashOrder[server.next]) THEN Down
       ELSE IF server.next < Len(HashOrder) THEN [server EXCEPT !.next = @ + 1]
       ELSE [server EXCEPT !.place = "serving"]
  /\ UNCHANGED <<contents, changes, builder, file>>

ServerStops ==
  /\ server.place # "down"
  /\ server' = Down
  /\ UNCHANGED <<contents, changes, builder, file>>

-----------------------------------------------------------------------------

DashboardInit ==
  /\ contents = [s \in Sources |-> 1]
  /\ changes = [s \in Sources |-> 0]
  /\ builder = NoBuild
  /\ file = NoFile
  /\ server = Down

DashboardNext ==
  \/ \E s \in Sources : Rewrite(s)
  \/ \E force \in BOOLEAN : BuilderStarts(force)
  \/ BuilderChecks
  \/ BuilderHashes
  \/ BuilderReads
  \/ BuilderTruncates
  \/ BuilderWrites
  \/ BuilderEnds
  \/ ServerStarts
  \/ ServerValidates
  \/ ServerStops

DashboardSpec == DashboardInit /\ [][DashboardNext]_dashboardVars

-----------------------------------------------------------------------------

\* A server that goes into service presents the evidence of one moment: what is
\* in its snapshot of an artifact is what the artifact contained when the
\* checksums had been taken, although checksums, contents and validation are
\* three passes during which programs write.  The exception is an artifact that
\* was changed and changed back in between, which a checksum cannot tell.
ServedIsOfOneMoment ==
  [][server.place = "validate" /\ server'.place = "serving" =>
       \A s \in Read :
         \/ server.snapshot.data[s] = server.snapshot.moment[s]
         \/ changes[s] >= server.snapshot.since[s] + 2]_dashboardVars

=============================================================================
