----------------------------- MODULE ImageStore -----------------------------
(***************************************************************************)
(* Where the images of the gauge screen live: the table of video memory    *)
(* slots (demo_cluster.c), the file handles of the ROM file system         *)
(* (misc/romfs_main.c) and the Data pointers of the images, set and reset  *)
(* by Init2DImg and Deinit2DImg (misc/texture.c).                          *)
(*                                                                         *)
(* An image is loaded in two steps, so that what is held between opening   *)
(* and closing its file can be seen.  No image of the repository carries   *)
(* its pixels with it: Data is 0 before Init2DImg.                         *)
(***************************************************************************)
EXTENDS Integers, Sequences, FiniteSets

CONSTANTS
  Images,       \* the images of GaugeScreenInit, in the order it loads them
  Persistent,   \* those used directly from flash
  Files,        \* those whose file is in RomFileSystemData
  VIDMEMBUFFERS,
  LOC_ROMFS_MAXOPEN

ImageSet == {Images[k] : k \in 1 .. Len(Images)}
Slots == 1 .. VIDMEMBUFFERS
Handles == 1 .. LOC_ROMFS_MAXOPEN
(* What a Data pointer may be: null, an address in flash, or a slot.       *)
Null == 0
Rom == -1
Pointers == {Null, Rom} \cup Slots

ASSUME ImagesOK ==
  /\ Images \in Seq(ImageSet)
  /\ Len(Images) >= 2                     \* background and needle come first
  /\ \A a, b \in 1 .. Len(Images) :       \* no two elements share an image
       Images[a] = Images[b] => a = b
  /\ Persistent \subseteq Files /\ Files \subseteq ImageSet
  /\ Images[1] \notin Persistent          \* cluster_background.c, Attributes
  /\ VIDMEMBUFFERS \in Nat /\ LOC_ROMFS_MAXOPEN \in Nat \ {0}
  /\ "none" \notin ImageSet

VARIABLES
  alloced,   \* vidmembuffer_alloced
  vidmem,    \* the driver's side: the image in each buffer, "none" if freed
  InUse,     \* the file handles in use
  Data,      \* *Img->Data
  backup,    \* OnBackupData, OffBackupData, locOldNeedleData, ...
  loading    \* Init2DImg under way: the image, its slot and its handle

store == <<alloced, vidmem, InUse, Data, backup, loading>>

Idle == [img |-> "none", slot |-> 0, fp |-> 0]

StoreInit ==
  /\ alloced = [s \in Slots |-> FALSE]
  /\ vidmem = [s \in Slots |-> "none"]
  /\ InUse = [h \in Handles |-> FALSE]
  /\ Data = [i \in ImageSet |-> Null]
  /\ backup = [i \in ImageSet |-> Null]
  /\ loading = Idle

-----------------------------------------------------------------------------
Least(S) == CHOOSE x \in S : \A y \in S : x <= y
FreeSlots == {s \in Slots : ~alloced[s]}
FreeHandles == {h \in Handles : ~InUse[h]}

(* demo_allocvidmem: the first free slot is marked before the driver is    *)
(* asked, and stays marked when the driver refuses.                        *)
demo_allocvidmem(i, ok) ==
  /\ FreeSlots # {}
  /\ alloced' = [alloced EXCEPT ![Least(FreeSlots)] = TRUE]
  /\ vidmem' = IF ok THEN [vidmem EXCEPT ![Least(FreeSlots)] = i] ELSE vidmem

(* demo_freevidmem: a pointer to no slot changes nothing.                  *)
MutFreeDriverOnly(d) ==
  /\ UNCHANGED alloced
  /\ vidmem' = [s \in Slots |-> IF s = d THEN "none" ELSE vidmem[s]]
demo_freevidmem(d) ==
  /\ alloced' = [s \in Slots |-> alloced[s] /\ s # d]
  /\ vidmem' = [s \in Slots |-> IF s = d THEN "none" ELSE vidmem[s]]

(* eeRomFs_FOpen: needs a free handle and the file.                        *)
FOpens(i) == FreeHandles # {} /\ i \in Files
eeRomFs_FOpen == InUse' = [InUse EXCEPT ![Least(FreeHandles)] = TRUE]
MutNoClose(h) == UNCHANGED InUse
eeRomFs_FClose(h) == InUse' = [InUse EXCEPT ![h] = FALSE]

(* Init2DImg, up to the open file.  Memory first; when the file cannot be  *)
(* opened the memory is given back and the image keeps the Data it had.    *)
LoadOpen(i) ==
  /\ loading = Idle /\ FOpens(i) /\ eeRomFs_FOpen
  /\ IF i \in Persistent
     THEN /\ loading' = [img |-> i, slot |-> 0, fp |-> Least(FreeHandles)]
          /\ UNCHANGED <<alloced, vidmem>>
     ELSE /\ demo_allocvidmem(i, TRUE)
          /\ loading' = [img |-> i, slot |-> Least(FreeSlots),
                         fp |-> Least(FreeHandles)]
  /\ UNCHANGED <<Data, backup>>

(* No file: it returns 0, which becomes the backup.                        *)
LoadMissing(i) ==
  /\ loading = Idle /\ ~FOpens(i)
  /\ i \notin Persistent => FreeSlots # {}   \* taken and freed again
  /\ backup' = [backup EXCEPT ![i] = Null]
  /\ UNCHANGED <<alloced, vidmem, InUse, Data, loading>>

(* No memory: ClusterError never returns.                                  *)
LoadNoMemory(i, driverFails) ==
  /\ loading = Idle /\ i \notin Persistent
  /\ IF FreeSlots = {} THEN UNCHANGED <<alloced, vidmem>>
                       ELSE driverFails /\ demo_allocvidmem(i, FALSE)
  /\ UNCHANGED <<InUse, Data, backup, loading>>

(* Init2DImg, the rest: decompress or copy the pixels, close the file.     *)
LoadCopy ==
  LET i == loading.img
  IN /\ loading # Idle
     /\ backup' = [backup EXCEPT ![i] = Data[i]]
     /\ Data' = [Data EXCEPT ![i] = IF i \in Persistent THEN Rom
                                                        ELSE loading.slot]
     /\ eeRomFs_FClose(loading.fp)
     /\ loading' = Idle
     /\ UNCHANGED <<alloced, vidmem>>

Deinit2DImg(i) ==
  /\ IF i \in Persistent THEN UNCHANGED <<alloced, vidmem>>
                         ELSE demo_freevidmem(Data[i])
  /\ Data' = [Data EXCEPT ![i] = backup[i]]
  /\ UNCHANGED <<InUse, backup, loading>>

(* GaugeScreenDeInit frees the elements first, then needle and background. *)
DeinitOrder == SubSeq(Images, 3, Len(Images)) \o <<Images[2], Images[1]>>

(* Whether drawing image i can go on: demo_img2tex calls demo_getvidmemptr *)
(* for an image in video memory, which never returns for a null pointer.   *)
Drawable(i) == i \in Persistent \/ Data[i] # Null
(* Whether its pixels are where Data says.                                 *)
Readable(i) ==
  IF i \in Persistent THEN Data[i] = Rom
                      ELSE Data[i] \in Slots /\ vidmem[Data[i]] = i
=============================================================================
