------------------------------- MODULE Iommu --------------------------------
(***************************************************************************)
(* The IOMMU windows of kernel/src/iommu.c as operators on a record        *)
(* [windows, count].  Addresses and sizes are in pages; a capability is    *)
(* valid and tagged and is given by its bounds and rights.  iommu_flush    *)
(* only orders memory accesses.                                            *)
(***************************************************************************)
EXTENDS Integers, FiniteSetsExt

CONSTANTS
  MaxWindows,   \* MAX_IOMMU_WINDOWS (16)
  NoWindow      \* an entry that is not valid

ASSUME IommuAssumption == MaxWindows \in Nat

Index == 0 .. (MaxWindows - 1)

Perms == {"LOAD", "STORE"}

WindowRec(devs) == [dev : devs, base : Nat, size : Nat, perms : SUBSET Perms]

iommu_zero == [windows |-> [i \in Index |-> NoWindow], count |-> 0]

FreeWindows(m) == {i \in Index : m.windows[i] = NoWindow}

Contains(base, size, p, n) == p >= base /\ p + n <= base + size

\* Slip: only the beginning of the window is compared with the bounds.
CanMapStart(m, cap, p, n, perms) ==
  /\ m.count < MaxWindows
  /\ Contains(cap.base, cap.size, p, 1)
  /\ perms \subseteq cap.rights
  /\ FreeWindows(m) # {}

CanMap(m, cap, p, n, perms) ==
  /\ m.count < MaxWindows
  /\ Contains(cap.base, cap.size, p, n)
  /\ perms \subseteq cap.rights
  /\ FreeWindows(m) # {}

\* Slip: the window is written and not counted.
MapUncounted(m, dev, p, n, perms) ==
  [m EXCEPT !.windows[Min(FreeWindows(m))] =
              [dev |-> dev, base |-> p, size |-> n, perms |-> perms]]

\* The first free entry takes the window.
iommu_map(m, dev, p, n, perms) ==
  [m EXCEPT !.windows[Min(FreeWindows(m))] =
              [dev |-> dev, base |-> p, size |-> n, perms |-> perms],
            !.count = @ + 1]

\* Slip: the device is not compared.
WindowsAnyDev(m, dev, p) == {i \in Index \ FreeWindows(m) : m.windows[i].base = p}

\* The windows of the device that begin at page p.
WindowsAt(m, dev, p) ==
  {i \in Index \ FreeWindows(m) : m.windows[i].dev = dev /\ m.windows[i].base = p}

\* The first of them is removed, if there is one.
iommu_unmap(m, dev, p) ==
  IF WindowsAt(m, dev, p) = {} THEN m
  ELSE [m EXCEPT !.windows[Min(WindowsAt(m, dev, p))] = NoWindow, !.count = @ - 1]

\* The first window of the device that holds the page decides.
iommu_check(m, dev, p, perm) ==
  LET holding == {i \in Index \ FreeWindows(m) :
                    /\ m.windows[i].dev = dev
                    /\ Contains(m.windows[i].base, m.windows[i].size, p, 1)}
  IN  holding # {} /\ perm \in m.windows[Min(holding)].perms
=============================================================================
