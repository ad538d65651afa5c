---------------------------- MODULE DeviceAccess ----------------------------
(***************************************************************************)
(* The organization's devices (authoritative.py): enrollment codes,        *)
(* enrollment, revocation, the device limit, and the configuration that a  *)
(* device downloads.  The administrators' operations are requests of       *)
(* Administration; an enrollment is a transaction of its own, that locks   *)
(* the code and the organization before it counts the devices.             *)
(***************************************************************************)
EXTENDS Administration

CONSTANTS
    Devices,        \* devices that may be enrolled
    Codes,          \* enrollment codes
    DeviceLimits    \* the values an administrator may give device_limit

ASSUME DeviceAssumption ==
    /\ IsFiniteSet(Devices) /\ IsFiniteSet(Codes)
    /\ DeviceLimits \subseteq 1 .. 1000 /\ DeviceLimits # {}    \* CHECK of the column

VARIABLES
    device,         \* devices.active, or "NONE" before the row exists
    code,           \* enrollment_codes: who used it is history
    deviceLimit,    \* organizations.device_limit
    enrolling,      \* the enrollment transactions between count and commit
    bootstrap       \* the configuration each device has read

deviceRows == <<device, code, deviceLimit>>
deviceVars == <<adminVars, deviceRows, enrolling, bootstrap>>
orgRows == <<role, site, invitations>>

ActiveDevices == {d \in Devices : device[d] = "ACTIVE"}
NoCopy == [version |-> 0, vendors |-> 0]

DeviceInit ==
    /\ AdminInit
    /\ device = [d \in Devices |-> "NONE"]
    /\ code = [c \in Codes |-> [status |-> "NONE", usedBy |-> {}]]
    /\ deviceLimit = Max(DeviceLimits)
    /\ enrolling = {}
    /\ bootstrap = [d \in Devices |-> NoCopy]

\* create_enrollment_code and revoke_device commit at once, without an event.
CreateCode(u, c) ==
    /\ request[u].step = "authenticated"
    /\ code[c].status = "NONE"
    /\ code' = [code EXCEPT ![c].status = "OPEN"]
    /\ request' = [request EXCEPT ![u] = Idle]
    /\ UNCHANGED <<auditVars, orgRows, device, deviceLimit, enrolling, bootstrap>>

CodeExpires(c) ==
    /\ code[c].status = "OPEN"
    /\ \A e \in enrolling : e.code # c
    /\ code' = [code EXCEPT ![c].status = "EXPIRED"]
    /\ UNCHANGED <<adminVars, device, deviceLimit, enrolling, bootstrap>>

RevokeDevice(u, d) ==
    /\ request[u].step = "authenticated"
    /\ device[d] = "ACTIVE"
    /\ device' = [device EXCEPT ![d] = "REVOKED"]
    /\ request' = [request EXCEPT ![u] = Idle]
    /\ UNCHANGED <<auditVars, orgRows, code, deviceLimit, enrolling, bootstrap>>

\* Wrong on purpose: the organization's row is not locked.
HoldsNothing == FALSE

\* FOR UPDATE OF e, o: one enrollment of a code, and of the organization, at a
\* time; the organization's row is also the one a new quota changes.
HoldsOrganization == enrolling # {} \/ \E u \in Users : Running(u, "quota")

\* enroll_device, up to the count: the site must be active.
BeginEnrollment(c, d) ==
    /\ code[c].status = "OPEN"
    /\ site.active
    /\ device[d] = "NONE"
    /\ ~HoldsOrganization
    /\ Cardinality(ActiveDevices) < deviceLimit
    /\ enrolling' = enrolling \cup {[code |-> c, device |-> d]}
    /\ UNCHANGED <<adminVars, deviceRows, bootstrap>>

\* The device's row is inserted, and the code used unless it already is.
CommitEnrollment(e) ==
    /\ enrolling' = enrolling \ {e}
    /\ code[e.code].status = "OPEN"
    /\ device' = [device EXCEPT ![e.device] = "ACTIVE"]
    /\ code' = [code EXCEPT ![e.code] = [status |-> "USED", usedBy |-> @.usedBy \cup {e.device}]]
    /\ UNCHANGED <<adminVars, deviceLimit, bootstrap>>

EnrollmentFails(e) ==
    /\ enrolling' = enrolling \ {e}
    /\ UNCHANGED <<adminVars, deviceRows, bootstrap>>

\* update_organization_quota.
BeginQuota(u, n) ==
    /\ Begins(u, {"ORG_ADMIN"}, [name |-> "quota", limit |-> n])
    /\ ~HoldsOrganization
    /\ UNCHANGED <<events, orgRows, deviceRows, enrolling, bootstrap>>

CommitQuota(u) ==
    /\ Running(u, "quota")
    /\ deviceLimit' = request[u].op.limit
    /\ Finishes(u)
    /\ UNCHANGED <<orgRows, device, code, enrolling, bootstrap>>

\* revoke_all_devices revokes the devices that its UPDATE saw; an open code,
\* and an enrollment that commits in between, are left alone.
BeginRevokeAll(u) ==
    /\ Begins(u, {"ORG_ADMIN"}, [name |-> "revoke all", devices |-> ActiveDevices])
    /\ UNCHANGED <<events, orgRows, deviceRows, enrolling, bootstrap>>

CommitRevokeAll(u) ==
    /\ Running(u, "revoke all")
    /\ device' = [d \in Devices |-> IF d \in request[u].op.devices THEN "REVOKED" ELSE device[d]]
    /\ Finishes(u)
    /\ UNCHANGED <<orgRows, code, deviceLimit, enrolling, bootstrap>>

\* mobile_bootstrap reads the site's row, then its vendors: two snapshots.
BootstrapSite(d) ==
    /\ device[d] = "ACTIVE"
    /\ site.active
    /\ bootstrap' = [bootstrap EXCEPT ![d] = [version |-> site.version, vendors |-> 0]]
    /\ UNCHANGED <<adminVars, deviceRows, enrolling>>

BootstrapVendors(d) ==
    /\ bootstrap[d].version # 0
    /\ bootstrap[d].vendors = 0
    /\ bootstrap' = [bootstrap EXCEPT ![d].vendors = site.vendors]
    /\ UNCHANGED <<adminVars, deviceRows, enrolling>>

DeviceNext(users, devices, codes) ==
    \/ AdminNext(users) /\ UNCHANGED <<deviceRows, enrolling, bootstrap>>
    \/ \E u \in users :
          \/ \E c \in codes : CreateCode(u, c)
          \/ \E d \in devices : RevokeDevice(u, d)
          \/ \E n \in DeviceLimits : BeginQuota(u, n)
          \/ CommitQuota(u)
          \/ BeginRevokeAll(u)
          \/ CommitRevokeAll(u)
    \/ \E c \in codes, d \in devices : BeginEnrollment(c, d)
    \/ \E c \in codes : CodeExpires(c)
    \/ \E e \in enrolling : CommitEnrollment(e) \/ EnrollmentFails(e)
    \/ \E d \in devices : BootstrapSite(d) \/ BootstrapVendors(d)

DeviceTypeOK ==
    /\ device \in [Devices -> {"NONE", "ACTIVE", "REVOKED"}]
    /\ code \in [Codes -> [status : {"NONE", "OPEN", "USED", "EXPIRED"}, usedBy : SUBSET Devices]]
    /\ deviceLimit \in DeviceLimits
    /\ enrolling \subseteq [code : Codes, device : Devices]

-----------------------------------------------------------------------------
\* Enrollments that race for the last place or for one code: the number of
\* active devices grows only up to the limit in force at that moment, although
\* the limit was read and the devices counted some steps earlier, and a code
\* enrolls one device at most.
EnrollmentsWithinLimit ==
    /\ \A c \in Codes : Cardinality(code[c].usedBy) <= 1
    /\ \A e \in enrolling : Cardinality(ActiveDevices) < deviceLimit

\* A device whose configuration version is the site's has the site's vendor
\* list, although it reads the two in two snapshots between which administrators
\* may change both.
VendorsAsNewAsVersion ==
    \A d \in Devices : LET copy == bootstrap[d] IN
        copy.vendors # 0 /\ copy.version = site.version => copy.vendors = site.vendors
=============================================================================
