---------------------------- MODULE HardwareAdc ----------------------------
(***************************************************************************)
(* A hardware ADC: POST writes its row and, in the background, trusts the  *)
(* device at the ASG and installs AS3; DELETE untrusts the device its copy *)
(* of the row names, in its own request, and removes the row; PATCH reads  *)
(* the row and writes it back.  No status keeps them apart.  What a record *)
(* says is reduced to whether it names the trusted device: its status      *)
(* decides nothing but whether AS3 is installed after trustAdc, which is a *)
(* place of the creation here.                                             *)
(***************************************************************************)

CONSTANTS
  Deletes,     \* DELETE requests
  Patches      \* PATCH requests

VARIABLES
  row,         \* the row in the database
  place,       \* where the creation is
  known,       \* the creation's copy of the record
  reclaim,     \* a DELETE: where it is, its copy, and whether it has read the
               \* row while the creation had still to name the device
  patch,       \* the same of a PATCH
  trusted,     \* ASG: is the device a trusted one?
  lost,        \* history: has a failing call or a restart lost its id?
  early        \* history: has such a copy been written back, or its row gone?

vars == <<row, place, known, reclaim, patch, trusted, lost, early>>

Record == {"bare", "naming"}

Naming == {"created", "trust", "poll", "trusted", "pollFailed", "trustFailed"}
Installing == {"as3", "install", "installed", "installFailed"}
Place == {"idle", "done"} \cup Naming \cup Installing

Request == [at : {"idle", "untrust", "untrustFailed", "remove", "write", "done"},
            adc : Record, early : BOOLEAN]

TypeOK ==
  /\ row \in Record \cup {"none"}
  /\ place \in Place
  /\ known \in Record
  /\ reclaim \in [Deletes -> Request]
  /\ patch \in [Patches -> Request]
  /\ trusted \in BOOLEAN /\ lost \in BOOLEAN /\ early \in BOOLEAN

Idle == [at |-> "idle", adc |-> "bare", early |-> FALSE]

Init ==
  /\ row = "none" /\ place = "idle" /\ known = "bare"
  /\ reclaim = [d \in Deletes |-> Idle]
  /\ patch = [p \in Patches |-> Idle]
  /\ trusted = FALSE /\ lost = FALSE /\ early = FALSE

-----------------------------------------------------------------------------
(* The creation. *)

\* The row is written before the request is looked at: one without a
\* connection is refused with 400, and its row stays.
Post ==
  /\ place = "idle"
  /\ row' = "bare"
  /\ place' \in {"created", "done"}
  /\ UNCHANGED <<known, reclaim, patch, trusted, lost, early>>

\* serialize: the copy is changed, and put in the place of the row.  Without a
\* row the update is rejected; otherwise too it may fail, with or without
\* effect, and then the id is lost if nothing is to write the copy again.
Serialize(adc, next, otherwise) ==
  /\ known' = adc
  /\ \/ row # "none" /\ row' = adc /\ place' = next /\ lost' = lost
     \/ /\ row' \in {row, IF row = "none" THEN row ELSE adc}
        /\ place' = otherwise
        /\ lost' = (lost \/ (trusted /\ row' = "bare" /\ place' \notin Naming))
  /\ UNCHANGED <<reclaim, patch, trusted, early>>

WriteTrusting == place = "created" /\ Serialize(known, "trust", "trustFailed")

\* The ASG takes the device, and may do so although the call fails.
TrustDevice ==
  /\ place = "trust"
  /\ \/ trusted' = TRUE /\ place' = "poll" /\ lost' = lost
     \/ /\ trusted' \in BOOLEAN /\ lost' = trusted'
        /\ place' = "trustFailed"
  /\ UNCHANGED <<row, known, reclaim, patch, early>>

\* The device comes to be ACTIVE, or the poll ends with an error or in vain.
PollTrust ==
  /\ place = "poll"
  /\ \/ place' = "trusted" /\ lost' = lost
     \/ place' = "pollFailed" /\ lost' = TRUE
  /\ UNCHANGED <<row, known, reclaim, patch, trusted, early>>

\* The device is ACTIVE: its id is put into the record.
WriteTrusted == place = "trusted" /\ Serialize("naming", "as3", "trustFailed")

\* TRUSTERROR, of the poll and of whatever was thrown before, a rejected
\* serialize included.
WriteTrustError ==
  \/ place = "pollFailed" /\ Serialize(known, "done", "trustFailed")
  \/ place = "trustFailed" /\ Serialize(known, "done", "done")

\* installAS3: its first serialize is outside of its try.
WriteInstalling == place = "as3" /\ Serialize(known, "install", "done")

InstallAS3 ==
  /\ place = "install"
  /\ place' \in {"installed", "installFailed"}
  /\ UNCHANGED <<row, known, reclaim, patch, trusted, lost, early>>

WriteInstalled ==
  \/ place = "installed" /\ Serialize(known, "done", "installFailed")
  \/ place = "installFailed" /\ Serialize(known, "done", "done")

Creation ==
  \/ Post \/ WriteTrusting \/ TrustDevice \/ PollTrust \/ WriteTrusted
  \/ WriteTrustError \/ WriteInstalling \/ InstallAS3 \/ WriteInstalled

-----------------------------------------------------------------------------
(* The requests. *)

Read(at) == [at |-> at, adc |-> row, early |-> place \in Naming]

\* DELETE: without a device in the copy there is nothing to untrust.
Load(d) ==
  /\ reclaim[d].at = "idle" /\ row # "none"
  /\ reclaim' = [reclaim EXCEPT
       ![d] = Read(IF row = "naming" THEN "untrust" ELSE "remove")]
  /\ UNCHANGED <<row, place, known, patch, trusted, lost, early>>

\* Mutant: the error of the ASG is only logged.
UntrustLeniently(d) ==
  /\ reclaim[d].at = "untrust"
  /\ trusted' \in {trusted, FALSE}
  /\ reclaim' = [reclaim EXCEPT ![d].at = "remove"]
  /\ UNCHANGED <<row, place, known, patch, lost, early>>

\* untrustAdc: the ASG lets the device go, and may do so although the call
\* fails; what it answers for a device that is gone is open.
Untrust(d) ==
  /\ reclaim[d].at = "untrust"
  /\ \/ trusted' = FALSE /\ reclaim' = [reclaim EXCEPT ![d].at = "remove"]
     \/ /\ trusted' \in {trusted, FALSE}
        /\ reclaim' = [reclaim EXCEPT ![d].at = "untrustFailed"]
  /\ UNCHANGED <<row, place, known, patch, lost, early>>

\* TRUSTERROR is written, and the request ends with 422; without a row, or when
\* the update fails, with the error of that.
WriteUntrustError(d) ==
  /\ reclaim[d].at = "untrustFailed"
  /\ row' \in {row, IF row = "none" THEN row ELSE reclaim[d].adc}
  /\ reclaim' = [reclaim EXCEPT ![d].at = "done"]
  /\ UNCHANGED <<place, known, patch, trusted, lost, early>>

\* The row goes, or the database fails and the request with it.
Remove(d) ==
  /\ reclaim[d].at = "remove"
  /\ row' \in {row, "none"}
  /\ early' = (early \/ (reclaim[d].early /\ row' = "none"))
  /\ reclaim' = [reclaim EXCEPT ![d].at = "done"]
  /\ UNCHANGED <<place, known, patch, trusted, lost>>

PatchRead(p) ==
  /\ patch[p].at = "idle" /\ row # "none"
  /\ patch' = [patch EXCEPT ![p] = Read("write")]
  /\ UNCHANGED <<row, place, known, reclaim, trusted, lost, early>>

\* replaceById, which may fail as well.
PatchWrite(p) ==
  /\ patch[p].at = "write"
  /\ row' \in {row, IF row = "none" THEN row ELSE patch[p].adc}
  /\ early' = (early \/ (patch[p].early /\ row' # row))
  /\ patch' = [patch EXCEPT ![p].at = "done"]
  /\ UNCHANGED <<place, known, reclaim, trusted, lost>>

\* The process stops: nothing goes on with what was at work.
Restart ==
  /\ place # "idle"
  /\ place' = "done"
  /\ lost' = (lost \/ (trusted /\ row = "bare"))
  /\ reclaim' = [d \in Deletes |->
       IF reclaim[d].at = "idle" THEN reclaim[d] ELSE [reclaim[d] EXCEPT !.at = "done"]]
  /\ patch' = [p \in Patches |->
       IF patch[p].at = "idle" THEN patch[p] ELSE [patch[p] EXCEPT !.at = "done"]]
  /\ UNCHANGED <<row, known, trusted, early>>

Next ==
  \/ Creation
  \/ \E d \in Deletes :
       Load(d) \/ Untrust(d) \/ WriteUntrustError(d) \/ Remove(d)
  \/ \E p \in Patches : PatchRead(p) \/ PatchWrite(p)
  \/ Restart

Spec == Init /\ [][Next]_vars

-----------------------------------------------------------------------------
(***************************************************************************)
(* A trusted device is one that the row names, so that a DELETE can find   *)
(* it, or that the creation is about to name: whatever calls fail, and     *)
(* however DELETE, PATCH and the creation interleave, a device is left at  *)
(* the ASG without a row only when the call or the poll that trusts it, or *)
(* every write of its id, failed or was cut off, or when a request that    *)
(* had read the row before the device was named in it has removed it or    *)
(* written it back.                                                        *)
(***************************************************************************)
DeviceFindable ==
  trusted => row = "naming" \/ place \in Naming \/ lost \/ early
=============================================================================
