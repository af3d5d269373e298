---------------------------- MODULE AddressSpace ----------------------------
(***************************************************************************)
(* The address space of a process under the operations of NrProcess that   *)
(* change it.  Beside it runs ModelAddressSpace, which the repository      *)
(* keeps to say what an address space does.                                *)
(***************************************************************************)
EXTENDS VSpace

CONSTANTS VPages,       \* Addresses processes use
          KernelBase,   \* KERNEL_BASE, a multiple of SizeAt(3) above VPages
          Frames,       \* Frames: [base, size]
          PageSizes,    \* Sets of frame sizes, one of which a process uses
          Actions,      \* Rights that are asked for
          MaxFrames     \* MAX_FRAMES_PER_PROCESS

VARIABLES sizes,        \* the frame sizes of this process
          vspace,       \* Ring3Process.vspace
          frames,       \* Ring3Process.frames
          oplog,        \* ModelAddressSpace.oplog, as a set
          agree,        \* the last operation had the result of the model
          grown,        \* a mapping was repeated with a larger frame
          crash         \* what stopped the kernel

spaceVars == <<sizes, vspace, frames, oplog, agree, grown, crash>>

NoFrame == [base |-> -1, size |-> 0]

ASSUME AddressSpaceAssumption ==
  /\ KernelBase % SizeAt(3) = 0
  /\ \A v \in VPages : v < KernelBase
  /\ Actions \subseteq MapAction

-----------------------------------------------------------------------------
(* ModelAddressSpace                                                       *)

CanExtend(m, base, frame, action) ==
  /\ m.vaddr = base
  /\ m.size <= frame.size
  /\ m.paddr = frame.base
  /\ m.rights = action

Overlapping(base, frame) ==
  {m \in oplog : Overlap(m.vaddr, m.size, base, frame.size)}

ModelMapResult(base, frame, action) ==
  IF Invalid(base, frame) # "Ok" THEN Invalid(base, frame)
  ELSE IF \A m \in Overlapping(base, frame) : CanExtend(m, base, frame, action)
  THEN "Ok" ELSE "AlreadyMapped"

(* A mapping that is extended is promoted to the size of the frame.        *)
ModelMap(base, frame, action) ==
  IF ModelMapResult(base, frame, action) = "Ok"
  THEN (oplog \ Overlapping(base, frame))
         \cup {[vaddr |-> base, paddr |-> frame.base, size |-> frame.size,
                rights |-> action]}
  ELSE oplog

ModelAt(vaddr) == {m \in oplog : Covers(m.vaddr, m.size, vaddr)}

ModelResolve(vaddr) ==
  IF ModelAt(vaddr) = {} THEN NotMapped
  ELSE LET m == CHOOSE m \in ModelAt(vaddr) : TRUE
       IN  Resolved(m.paddr + (vaddr - m.vaddr), m.rights)

ModelUnmap(vaddr) ==
  IF ModelAt(vaddr) = {} THEN NotMapped
  ELSE LET m == CHOOSE m \in ModelAt(vaddr) : TRUE
       IN  [result |-> "Ok", vaddr |-> m.vaddr, paddr |-> m.paddr, size |-> m.size]

ModelAdjust(vaddr) ==
  IF ModelAt(vaddr) = {} THEN NotMapped
  ELSE LET m == CHOOSE m \in ModelAt(vaddr) : TRUE
       IN  [result |-> "Ok", vaddr |-> m.vaddr, size |-> m.size]

-----------------------------------------------------------------------------
(* The operations, on both.                                                *)

(* The kernel's entry of the PML4 is there from loading the process.       *)
SpaceInit ==
  /\ sizes \in PageSizes
  /\ vspace = [NewVSpace EXCEPT !.table = Pos(3, KernelBase) :> Table]
  /\ frames = [fid \in 1 .. MaxFrames |-> NoFrame]
  /\ oplog = {}
  /\ agree = TRUE /\ grown = FALSE /\ crash = "no"

MapFrame(base, frame, action) ==
  LET call == map_frame(vspace, base, frame, action)
  IN  /\ vspace' = call.vs
      /\ oplog' = ModelMap(base, frame, action)
      /\ agree' = (call.result = ModelMapResult(base, frame, action))
      /\ grown' = (call.result = "Ok" /\ call.vs = vspace
                     /\ vspace.mappings[base].frame.size < frame.size)
      /\ crash' = IF call.result = "Panic" THEN "page_table" ELSE "no"

(* Op::MemMapDevice maps the frame at its physical address.                *)
MemMapDevice(frame, action) ==
  /\ MapFrame(frame.base, frame, action)
  /\ UNCHANGED <<sizes, frames>>

(* One frame of NrProcess::map_frames, which takes a refusal for a state   *)
(* that cannot be.                                                         *)
MemMapFrame(base, frame, action) ==
  /\ map_frame(vspace, base, frame, action).result \in {"Ok", "Panic"}
  /\ MapFrame(base, frame, action)
  /\ UNCHANGED <<sizes, frames>>

MemMapFrameRefused(base, frame, action) ==
  LET result == map_frame(vspace, base, frame, action).result
  IN  /\ result \notin {"Ok", "Panic"}
      /\ crash' = "map_frames"
      /\ agree' = (result = ModelMapResult(base, frame, action))
      /\ UNCHANGED <<sizes, vspace, frames, oplog, grown>>

(* Op::AllocateFrameToProcess, which fails when no number is free.         *)
AllocateFrameToProcess(frame) ==
  LET free == {fid \in 1 .. MaxFrames : frames[fid] = NoFrame}
  IN  /\ free # {}
      /\ frames' = [frames EXCEPT ![Min(free)] = frame]
      /\ UNCHANGED <<sizes, vspace, oplog, agree, grown, crash>>

(* Op::MemMapFrameId: an unknown frame is refused before anything happens. *)
MemMapFrameId(base, fid, action) ==
  /\ frames[fid] # NoFrame
  /\ MapFrame(base, frames[fid], action)
  /\ UNCHANGED <<sizes, frames>>

MemUnmap(vaddr) ==
  LET call == unmap(vspace, vaddr)
  IN  /\ vspace' = call.vs
      /\ crash' = IF call.known THEN "no" ELSE "unmap"
      /\ oplog' = oplog \ ModelAt(vaddr)
      /\ agree' = (call.result = ModelUnmap(vaddr))
      /\ UNCHANGED <<sizes, frames, grown>>

Adjust(vaddr, action) ==
  LET call == adjust(vspace, vaddr, action)
  IN  /\ vspace' = call.vs
      /\ oplog' = {IF m \in ModelAt(vaddr) THEN [m EXCEPT !.rights = action] ELSE m : m \in oplog}
      /\ agree' = (call.result = ModelAdjust(vaddr))
      /\ UNCHANGED <<sizes, frames, grown, crash>>

SpaceNext ==
  /\ crash = "no"
  /\ \/ \E frame \in Frames, action \in Actions :
          /\ frame.size \in sizes
          /\ \/ MemMapDevice(frame, action)
             \/ \E base \in VPages : \/ MemMapFrame(base, frame, action)
                                     \/ MemMapFrameRefused(base, frame, action)
     \/ \E frame \in Frames : /\ frame.size \in sizes
                            /\ Invalid(0, frame) = "Ok"   \* from the allocator
                            /\ AllocateFrameToProcess(frame)
     \/ \E base \in VPages, fid \in 1 .. MaxFrames, action \in Actions :
          MemMapFrameId(base, fid, action)
     \/ \E vaddr \in VPages : MemUnmap(vaddr)
     \/ \E vaddr \in VPages, action \in Actions : Adjust(vaddr, action)

SpaceSpec == SpaceInit /\ [][SpaceNext]_spaceVars

-----------------------------------------------------------------------------
(* Properties                                                              *)

(* The address space answers every call as the model does and resolves     *)
(* every address to what the model resolves it to, through any sequence of *)
(* mapping, unmapping and adjusting with frames of two neighbouring page   *)
(* sizes; no call runs into a panic in the page table or a failed          *)
(* assertion in unmap.  It stops being so once a mapping is repeated with  *)
(* a larger frame, which the model extends and VSpace::map_frame leaves as *)
(* it is.                                                                  *)
SpaceEquivalence ==
  ~grown =>
    /\ agree
    /\ crash \in {"no", "map_frames"}
    /\ \A vaddr \in VPages : resolve(vspace.table, vaddr) = ModelResolve(vaddr)

(* The record and the page table say the same: every recorded mapping is   *)
(* in the table with its rights, and the table maps nothing else.  The     *)
(* check for conflicts looks at the record and the mapping is made in the  *)
(* table, so a difference turns into a panic or a lost mapping later.      *)
RecordMatchesTable ==
  \A vaddr \in VPages :
    LET m == vspace.mappings
        rec == {b \in DOMAIN m : Covers(b, m[b].frame.size, vaddr)}
    IN  resolve(vspace.table, vaddr) =
          IF rec = {} THEN NotMapped
          ELSE LET b == CHOOSE b \in rec : TRUE
               IN  Resolved(m[b].frame.base + (vaddr - b), m[b].rights)

=============================================================================
