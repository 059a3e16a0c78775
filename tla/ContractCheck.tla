--------------------------- MODULE ContractCheck ---------------------------
(***************************************************************************)
(* run of cmd/contractcheck: the fixtures of a directory are compared with *)
(* its manifest, auctions are solved again and notifications decoded and   *)
(* encoded again.  The first error ends the run.                           *)
(*                                                                         *)
(* A directory maps names to [type, data].  The data of a fixture is       *)
(* [is, meaning]: which kind of document the contract finds it to be (no   *)
(* kind: "broken") and what it says; the digest of data is the data.  For  *)
(* an auction, Solved is what /solve answers to it; for a notification,    *)
(* Recoded is what Unmarshal and Marshal make of it (module Notifications).*)
(***************************************************************************)
EXTENDS Naturals, Sequences, SequencesExt

CONSTANTS
    Directories,      \* directories without their manifest
    Manifests,        \* [pinned, fixtures, pairs, trips]
    SafeNames,        \* names fixturePath accepts
    JSONNames,        \* names that end in .json
    Solved, Recoded,  \* of meanings
    NoSolutions, NullSolutions,  \* the replies {"solutions": []} and {"solutions": null}
    Unreadable        \* a meaning that does not decode into the Go type

(* Manifests hold lists, and the contract refuses a null list of solutions. *)
ContractConstants ==
    /\ \A m \in Manifests :
          /\ m.fixtures \in Seq(Range(m.fixtures))
          /\ m.pairs \in Seq(Range(m.pairs))
          /\ m.trips \in Seq(Range(m.trips))
    /\ \A d \in Directories : \A n \in DOMAIN d :
          d[n].type = "file" /\ d[n].data.is = "solution" => d[n].data.meaning # NullSolutions

VARIABLES
    dir, manifest,
    pc,          \* manifest, fixtures, inventory, pairs, trips, pass, or the error
    i,           \* the next element of the stage's loop
    listed       \* the kind of each fixture listed so far

vars == <<dir, manifest, pc, i, listed>>

Init ==
    /\ dir \in Directories /\ manifest \in Manifests
    /\ pc = "manifest" /\ i = 1 /\ listed = <<>>

Goto(stage) == pc' = stage /\ i' = 1 /\ UNCHANGED <<dir, manifest, listed>>

Fail(error) == pc' = error /\ UNCHANGED <<dir, manifest, i, listed>>

Go == i' = i + 1 /\ UNCHANGED <<dir, manifest, pc, listed>>

(* fixturePath and readRegularFile. *)
Regular(name) == name \in SafeNames /\ name \in DOMAIN dir /\ dir[name].type = "file"

KindOf(name) == IF name \in DOMAIN listed THEN listed[name] ELSE ""

-----------------------------------------------------------------------------
ReadManifest ==
    /\ pc = "manifest"
    /\ IF ~manifest.pinned THEN Fail("not pinned")
       ELSE IF manifest.fixtures = <<>> THEN Fail("empty") ELSE Goto("fixtures")

Kinds == {"auction", "solution", "notification"}

CheckFixture ==
    /\ pc = "fixtures" /\ i <= Len(manifest.fixtures)
    /\ LET f == manifest.fixtures[i]
       IN  IF f.path \in DOMAIN listed THEN Fail("duplicate path")
           ELSE IF ~Regular(f.path) THEN Fail("no regular file")
           ELSE IF f.sha256 # dir[f.path].data THEN Fail("digest mismatch")
           ELSE IF f.kind \notin Kinds \/ dir[f.path].data.is # f.kind THEN Fail("invalid fixture")
           ELSE /\ listed' = [n \in DOMAIN listed \cup {f.path} |->
                                 IF n = f.path THEN f.kind ELSE listed[n]]
                /\ i' = i + 1
                /\ UNCHANGED <<dir, manifest, pc>>

FixturesDone == pc = "fixtures" /\ i > Len(manifest.fixtures) /\ Goto("inventory")

(* Mutant: a fixture on disk that is not listed is overlooked. *)
verifyFixtureInventory_subset ==
    /\ pc = "inventory"
    /\ LET found == (DOMAIN dir \cap JSONNames) \ {"manifest.json"}
       IN  IF \E n \in found : dir[n].type # "file" THEN Fail("non-regular entry")
           ELSE IF ~(DOMAIN listed \subseteq found) THEN Fail("inventory mismatch")
           ELSE Goto("pairs")

verifyFixtureInventory ==
    /\ pc = "inventory"
    /\ LET found == (DOMAIN dir \cap JSONNames) \ {"manifest.json"}
       IN  IF \E n \in found : dir[n].type # "file" THEN Fail("non-regular entry")
           ELSE IF DOMAIN listed # found THEN Fail("inventory mismatch")
           ELSE Goto("pairs")

(* Solve returns a nil slice when it finds nothing.  The handler replaces  *)
(* it by an empty one; the replay encodes it as it is.                     *)
Replayed(auction) ==
    IF Solved[auction] = NoSolutions THEN NullSolutions ELSE Solved[auction]

ReplayPair ==
    /\ pc = "pairs" /\ i <= Len(manifest.pairs)
    /\ LET pair     == manifest.pairs[i]
           auction  == dir[pair.auction].data.meaning
           expected == dir[pair.solution].data.meaning
       IN  IF KindOf(pair.auction) # "auction" \/ KindOf(pair.solution) # "solution"
           THEN Fail("pair not bound")
           ELSE IF auction = Unreadable THEN Fail("decode")
           ELSE IF Replayed(auction) # expected THEN Fail("does not replay") ELSE Go

PairsDone == pc = "pairs" /\ i > Len(manifest.pairs) /\ Goto("trips")

RoundTrip ==
    /\ pc = "trips" /\ i <= Len(manifest.trips)
    /\ LET name == manifest.trips[i]
           note == dir[name].data.meaning
       IN  IF KindOf(name) # "notification" THEN Fail("trip not bound")
           ELSE IF note = Unreadable THEN Fail("decode")
           ELSE IF Recoded[note] # note THEN Fail("changed during round trip") ELSE Go

TripsDone == pc = "trips" /\ i > Len(manifest.trips) /\ Goto("pass")

Next ==
    \/ ReadManifest \/ CheckFixture \/ FixturesDone \/ verifyFixtureInventory
    \/ ReplayPair \/ PairsDone \/ RoundTrip \/ TripsDone

Spec == Init /\ [][Next]_vars

-----------------------------------------------------------------------------
Fixtures == Range(manifest.fixtures)

(* A run that passes vouches for the whole directory: each JSON file is    *)
(* listed exactly once with its own digest and is valid for its kind, what *)
(* is listed is there, and every pair and round trip named by the manifest *)
(* speaks of such files and reproduces them.                               *)
PassVouches ==
    pc = "pass" =>
        /\ manifest.pinned /\ Fixtures # {}
        /\ \A n \in (DOMAIN dir \cap JSONNames) \ {"manifest.json"} :
              /\ \E f \in Fixtures : f.path = n /\ f.sha256 = dir[n].data /\ f.kind = dir[n].data.is
              /\ \A j, k \in DOMAIN manifest.fixtures :
                    {manifest.fixtures[j].path, manifest.fixtures[k].path} = {n} => j = k
        /\ \A f \in Fixtures : Regular(f.path)
        /\ \A p \in Range(manifest.pairs) :
              Solved[dir[p.auction].data.meaning] = dir[p.solution].data.meaning
        /\ \A n \in Range(manifest.trips) :
              Recoded[dir[n].data.meaning] = dir[n].data.meaning
=============================================================================
