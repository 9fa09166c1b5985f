------------------------------- MODULE Macho -------------------------------
(***************************************************************************)
(* Mach-O images as kernel/macho.c reads them.                             *)
(*                                                                         *)
(* An image is a container with slices.  A "thin" one is its only slice; a *)
(* "fat" one lists several; anything else is not recognised.  A slice has  *)
(* the cputype its fat_arch entry lists, the magic and cputype of its own  *)
(* header and its load commands.  A load command is a record whose kind is *)
(* "segment", "main" or "other"; the fields it does not use are zero.  A   *)
(* byte of a slice is known by its offset, so that what lands in memory    *)
(* can be told apart.                                                      *)
(***************************************************************************)
EXTENDS Integers, Sequences, FiniteSets, FiniteSetsExt

CONSTANT NativeCpu    \* CPU_TYPE_NATIVE

\* The value resolve_slice_offset returns when there is no slice to load.
NoSlice == 0

\* resolve_slice_offset, with slices known by their position.
ResolveSlice(image) ==
    LET native == {i \in DOMAIN image.slices : image.slices[i].listed = NativeCpu}
    IN  CASE image.container = "thin" -> 1
          [] image.container = "fat" /\ native # {} -> Min(native)
          [] OTHER -> NoSlice

\* The tests macho_load and macho_image_size make before they read a load
\* command.  The architecture is the header's own, whatever a fat_arch lists.
Loadable(image) ==
    LET i == ResolveSlice(image)
    IN  /\ i # NoSlice
        /\ image.slices[i].magic
        /\ image.slices[i].cpu = NativeCpu

\* The load commands of the slice that is loaded.
Commands(image) == image.slices[ResolveSlice(image)].cmds

IsSegment(cmd) == cmd.kind = "segment"

\* macho_load skips a segment that takes no room or has no file content.
Copied(cmd) == IsSegment(cmd) /\ cmd.vmsize # 0 /\ cmd.filesize # 0

\* What one copied segment writes, and where: the file's bytes, then zeroes
\* up to vmsize.
Place(cmd, target_base) ==
    LET length == Max({cmd.filesize, cmd.vmsize})
    IN  [a \in {target_base + cmd.vmaddr + b : b \in 0 .. length - 1} |->
            LET b == a - target_base - cmd.vmaddr
            IN  IF b < cmd.filesize THEN <<"init", cmd.fileoff + b>> ELSE <<"zero", 0>>]

\* The entry offset of the last LC_MAIN, or -1.
EntryOff(image) ==
    LET mains == {i \in DOMAIN Commands(image) : Commands(image)[i].kind = "main"}
    IN  IF mains = {} THEN -1 ELSE Commands(image)[Max(mains)].entryoff

\* The second pass of macho_load: the address of the entry, or 0.
Entry(image, target_base) ==
    LET off == EntryOff(image)
        homes == {i \in DOMAIN Commands(image) :
                    LET c == Commands(image)[i]
                    IN  IsSegment(c) /\ off >= c.fileoff /\ off < c.fileoff + c.filesize}
        home == Commands(image)[Min(homes)]
    IN  IF off = -1 \/ homes = {} THEN 0
        ELSE target_base + home.vmaddr + (off - home.fileoff)

\* The segments of an image that have file content.
Segments(image) ==
    {j \in DOMAIN Commands(image) :
        IsSegment(Commands(image)[j]) /\ Commands(image)[j].filesize # 0}

\* macho_image_size: from the lowest to the highest address of the segments
\* with file content, or 0.
ImageSize(image) ==
    IF ~Loadable(image) \/ Segments(image) = {} THEN 0
    ELSE Max({Commands(image)[i].vmaddr + Commands(image)[i].vmsize : i \in Segments(image)})
         - Min({Commands(image)[i].vmaddr : i \in Segments(image)})

\* An init as a linker lays it out: the lowest segment at the given base, some
\* segment ending last, no segment with more content than room, no two
\* segments on top of one another.
LinkedAt(image, base) ==
    LET cmds == Commands(image)
        end(j) == cmds[j].vmaddr + cmds[j].vmsize
    IN  /\ Len(cmds) \in Nat /\ DOMAIN cmds = 1 .. Len(cmds)
        /\ \A j \in DOMAIN cmds : {cmds[j].vmaddr, cmds[j].vmsize, cmds[j].fileoff,
                                   cmds[j].filesize, cmds[j].entryoff} \subseteq Nat
        /\ \A j \in Segments(image) : /\ cmds[j].filesize <= cmds[j].vmsize
                                      /\ base <= cmds[j].vmaddr
        /\ Segments(image) # {} =>
              /\ \E j \in Segments(image) : cmds[j].vmaddr = base
              /\ \E j \in Segments(image) : \A k \in Segments(image) : end(k) <= end(j)
        /\ \A j, k \in Segments(image) :
              j # k => end(j) <= cmds[k].vmaddr \/ end(k) <= cmds[j].vmaddr

=============================================================================
