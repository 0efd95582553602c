----------------------------- MODULE NetDriver ------------------------------
(***************************************************************************)
(* The network driver (userspace/drivers/virtio_net.c) and other devices   *)
(* over one IOMMU.  The driver is bound to a pool of memory, maps and      *)
(* unmaps buffers in it, crashes, is rebooted and bound again.             *)
(***************************************************************************)
EXTENDS Iommu

CONSTANTS
  Net,          \* the device id of the network card
  Others,       \* the device ids of the other devices
  IoCap,        \* device -> [base, size, rights] of its IOMMU capability
  Pools,        \* <<base, size>> that the driver is bound to
  BufSizes,     \* sizes of a buffer
  Pages         \* pages that are asked for

Devices == {Net} \cup Others

ASSUME NetAssumption ==
  /\ Net \notin Others
  /\ Pages \subseteq Nat /\ BufSizes \subseteq Nat
  /\ \A b \in Pools : b \in Nat \X Nat
  /\ \A d \in Devices : IoCap[d].base \in Nat /\ IoCap[d].size \in Nat
  /\ NoWindow \notin WindowRec(Devices)

VARIABLES
  iommu,   \* the IOMMU
  drv      \* [iommu: g_iommu is set, base: g_dma_base, len: g_dma_len, bound: g_iommu_bound]

nvars == <<iommu, drv>>

DriverZero == [iommu |-> FALSE, base |-> 0, len |-> 0, bound |-> FALSE]

NInit == iommu = iommu_zero /\ drv = DriverZero

\* net_driver_set_iommu.  The driver remembers the pool also when there is no
\* window for it.
SetIommu(base, len) ==
  LET ok == CanMap(iommu, IoCap[Net], base, len, Perms)
  IN  /\ iommu' = IF ok THEN iommu_map(iommu, Net, base, len, Perms) ELSE iommu
      /\ drv' = [iommu |-> TRUE, base |-> base, len |-> len, bound |-> ok]

\* net_driver_dma_map
DmaMap(p, n, perms) ==
  /\ drv.iommu /\ drv.bound
  /\ Contains(drv.base, drv.len, p, n)
  /\ CanMap(iommu, IoCap[Net], p, n, perms)
  /\ iommu' = iommu_map(iommu, Net, p, n, perms)
  /\ UNCHANGED drv

\* net_driver_dma_unmap
DmaUnmap(p) ==
  /\ drv.iommu
  /\ iommu' = iommu_unmap(iommu, Net, p)
  /\ UNCHANGED drv

\* net_driver_reboot.  Only the window at the beginning of the pool is
\* withdrawn.
Reboot ==
  /\ iommu' = IF drv.iommu /\ drv.bound THEN iommu_unmap(iommu, Net, drv.base) ELSE iommu
  /\ drv' = DriverZero

\* Another device uses iommu_map and iommu_unmap.
OtherMap(dev, p, n, perms) ==
  /\ CanMap(iommu, IoCap[dev], p, n, perms)
  /\ iommu' = iommu_map(iommu, dev, p, n, perms)
  /\ UNCHANGED drv

OtherUnmap(dev, p) ==
  /\ iommu' = iommu_unmap(iommu, dev, p)
  /\ UNCHANGED drv

DriverStep ==
  \/ \E b \in Pools : SetIommu(b[1], b[2])
  \/ \E p \in Pages, n \in BufSizes, perms \in SUBSET Perms : DmaMap(p, n, perms)
  \/ \E p \in Pages : DmaUnmap(p)
  \/ Reboot

NNext ==
  \/ DriverStep
  \/ \E dev \in Others, p \in Pages, n \in BufSizes, perms \in SUBSET Perms : OtherMap(dev, p, n, perms)
  \/ \E dev \in Others, p \in Pages : OtherUnmap(dev, p)

NSpec == NInit /\ [][NNext]_nvars

-----------------------------------------------------------------------------

\* count is the number of windows, however often buffers are unmapped twice and
\* the driver is rebooted: iommu_map refuses a window exactly when all are taken.
WindowsCounted == iommu.count = MaxWindows - Cardinality(FreeWindows(iommu))

\* A device reaches memory only within the bounds and the rights of its own
\* IOMMU capability, also through windows that a former life of the driver left
\* behind, and a bound driver has a pool within them.
DmaConfined ==
  /\ \A dev \in Devices, p \in Pages, perm \in Perms :
       iommu_check(iommu, dev, p, perm) =>
         Contains(IoCap[dev].base, IoCap[dev].size, p, 1) /\ perm \in IoCap[dev].rights
  /\ drv.bound => drv.iommu /\ Contains(IoCap[Net].base, IoCap[Net].size, drv.base, drv.len)

\* What the driver does, its reboot included, neither takes a window from
\* another device nor changes what that device may access, although both can
\* have windows at the same address.
OthersUntouched ==
  [][ DriverStep =>
        \A i \in Index \ FreeWindows(iommu) :
          iommu.windows[i].dev # Net => iommu'.windows[i] = iommu.windows[i] ]_nvars
=============================================================================
