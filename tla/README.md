# Verification of the ADC service and its portal

The repository holds two programs. `src/app/waf/src` is F5's ADC-as-a-service for
OpenStack, a LoopBack 4 application (TypeScript, 16.5k lines): a REST service that
creates BIG-IP virtual editions in OpenStack, licenses, onboards and trusts them,
and deploys AS3 applications on them. `src/app/portal/horizon` is its portal, a
fork of the OpenStack Horizon dashboard (Python 2, 72k lines) with a panel for
the service's ADCs. The rest is deployment scripts and a vendored handler.

This directory holds TLA+ models of both, their TLC runs, and TLAPS proofs.
`PROJECT.json` is the index: components, runs, the mutants that show each
property can fail, the source lines behind each definition, the hazards and the
theorems.

## 1. Inventory

| Component | State | Operations | Interacts with | What is hard | What makes it correct |
|---|---|---|---|---|---|
| **ADC lifecycle** `controllers/adc.controller.ts`, `models/adc.model.ts`, `repositories/common.ts` | the ADC's row; one copy of the record in every job; the resources behind it | POST (`create`: `createOn`, `installDO`, `licenseAdc`, `onboard`, `setupOn`), DELETE (`deleteById`, `deleteOn`), PATCH | everything below | jobs run in the background after the answer; each writes its whole copy back; some writes are not awaited; external calls fail with or without effect; the process restarts | the row names what exists; nothing is left when the row is gone; ACTIVE means ready; every job ends in a settled status |
| **State table** `AdcStateCtrlr` | none | `readyTo`, `gotTo`, `getStateEntry` | BIG-IP, ASG | transitions are asked about a copy that may be old; any exception is a no | the gates and the statuses the jobs write fit each other |
| **Polling** `utils.ts: checkAndWait` | tries left | poll, retry on `Error`, quit on a string | all drivers | which errors end a poll | every poll ends |
| **OpenStack drivers** `compute`, `network.service.ts` | none; Nova and Neutron keep it | create and delete server, port, floating IP; find, bind | the ADC lifecycle | a lost reply; deletion of what is gone; choosing a floating IP another ADC is choosing, by a status that Neutron sets late | no resource is bound twice |
| **Licensing** `license`, `bigiq.service.ts` | the shared BIG-IQ token | login, assign, revoke as tasks that are polled | the ADC lifecycle, BIG-IP | a FAILED task falls through to "not yet"; a shared token that expires during a poll | a license is revoked before the device is gone |
| **ASG manager** `asg.service.ts` | none; the ASG keeps trusted devices | trust, untrust, install AS3, deploy, upload and check of WAF policies | the ADC lifecycle, declarations | trust is asynchronous; its id is recorded only at the end | no device stays trusted after its ADC |
| **BIG-IP manager, onboarding** `bigip`, `do.service.ts` | none | reachability, installs, configuration queries, assembly of the onboarding body | the ADC lifecycle | the checks of the state table go through it | answers are of the device asked about |
| **Applications, declarations** `application`, `declaration.controller.ts`, `as3.model.ts` | application and declaration rows, fixed IPs of the external port | create a declaration (snapshot), deploy, clean up, bind virtual addresses | ASG, Neutron, the resource tables | read-modify-write of the port's fixed IPs (a TODO asks for a lock); status writes around a deployment | an address deployed is an address bound |
| **Application resources** (`service`, `pool`, `monitor`, `rule`, `endpointpolicy`, `certificate`, ... controllers) | one table each | CRUD | declarations | references to rows that are deleted | a declaration renders what exists |
| **WAF policies** `wafpolicy.controller.ts` | a table | CRUD, upload, check | ASG | none of its own | - |
| **Identity, sequence** `identity.service.ts`, `sequence.ts` | the shared admin token | renew, validate the user's token | Keystone, every request | concurrent renewal, expiry | a request is served with a token valid at that time |
| **ADC panel of the portal** `dashboards/f5services/f5adc`, `api/f5wafaas.py`, `horizon/tables/actions.py` | the rows the user ticked; the project of the session | batch actions on a table that is loaded again first | the service's REST interface, the session | the page is of some time ago; another tab switches the project; a call fails in the middle of a batch | what is reported deleted was, in the user's project; every row is accounted for |
| **Identity workflows** `identity/projects`, `identity/domains`, `api/keystone.py` | roles assigned at Keystone | create and edit a project, edit a domain | Keystone, a call per role | nothing is rolled back; two administrators, or two clicks | a role nobody wanted changed is not; nobody is without roles in between; administrators keep their own |
| **Flavors panel** `admin/flavors/workflows.py`, `api/nova.py` | flavors at Nova | create; edit by deleting and creating | Nova | a failure between delete and create; two editors | no flavor is lost silently; success means the form |
| **Paged tables** `horizon/tables`, `api/cinder.py`, `nova.py` | the page's first and last row as markers | next, previous | the services' lists | rows come and go between two pages | no row is skipped; the links tell the truth |
| **Memoized API calls** `horizon/utils/memoized.py` | a cache and locks under keys of weak references | call, argument dies | every API module, threads | first calls at the same time; garbage collection in between; a TypeError of the function taken for one of the key | one value per argument; nothing kept afterwards |
| **Neutron API layer** `api/neutron.py` | trunks at Neutron | update of a trunk; lists with long filters | Neutron | order of the calls; forms opened earlier; the length of URIs | no conflict; edits merge; nothing left out of a list |
| **Network workflow** `project/networks/workflows.py`, `horizon/exceptions.py` | a network and its subnet | create, roll back | Neutron | what becomes of an exception depends on its class | both or neither |
| **Sessions** `openstack_auth` | the session in the cache, the browser's cookies | login, logout, switch project or region | every page | requests that overlap save whole sessions | project, token and region belong together |
| **Other panels, forms, navigation** | none | list or pass one call on; render | the services | - | not modelled, see section 6 |

The hazards these components are exposed to are listed, at their lines, in
`PROJECT.json`.

## 2. The models of the lifecycle and the admin token

### `AdcStates`
The enumeration of statuses and `AdcStateCtrlr`'s table, as operators: the next
states, the failure name of each state, `getStateEntry` and `readyTo`. The
statuses a stage writes when it begins (POWERING, ...) are in the enumeration but
in no row of the table; `StateEntry` gives `NoEntry` for them, so that no
transition is allowed from them, as in the code.

### `AdcLifecycle`
One virtual-edition ADC with the jobs its requests start.

| Variable | In the code |
|---|---|
| `row` | the ADC's row: `status`, and `res`, the resources its `management` field names |
| `creator` | the job POST starts (`createFunc`): stage, where in the stage it is, and its copy of the ADC; `late` is a `serialize` it did not await |
| `reclaim[d]` | DELETE request `d`: where `deleteById`/`deleteOn` is, its copy, and the networks its loop has still to try |
| `patch[p]` | PATCH request `p`: the row `CommonRepository.updateById` has read and will write |
| `held` | ports, floating IPs, server, trusted device and license that exist |
| `device` | what the BIG-IP has reached (`boot`, `do`, `license`, ...), which the checks and polls ask about |
| `astray`, `mishap` | history only: no guard reads them; see below |

A step is the code between two awaits of external calls. An awaited `serialize`
is one step; a `serialize` nobody awaits (the success writes of `createOn`,
`installDO`, `onboard` and `installPartition`) is a later step of its own
(`LateWrite`) that may be overtaken by any other job.

- `Create`, `Gate`: POST, and the `readyTo` questions of `createFunc` and
  `setupOn`, answered by the checks of the table (`Passes`). With the fault
  `"check"` a question may be answered no because the call behind it failed.
- `CreateOn`, `InstallDO`, `LicenseAdc`, `Onboard`, `TrustAdc`, `InstallAS3`,
  `InstallPartition`: the stages, each with its first write, its calls, its poll
  and its success and failure writes; where each error path leads (the next gate,
  or the end of the job) follows the code, which differs from stage to stage.
- `DeleteLoad`, `DeleteCheck`, `ReclaimBegin`, `Untrust`, `Revoke`,
  `DeleteServer`, `DeletePort`, `DeleteFloatingIp`, `ReclaimEnd`, `RemoveRow`,
  `ReclaimFail`: `deleteById` and `deleteOn` in the order trust, license, vm,
  network, with the errors that stop it and those that are only logged.
- `PatchRead`, `PatchWrite`: the read-modify-write of PATCH. None of the fields a
  PATCH may change is modelled; what matters is that the row comes back whole.
- `Crash`: the process restarts. Nothing in the code resumes a job.

`Faults` names the calls that may fail. A failing call of the creation may have
had its effect (the reply is lost); `astray` records the resources that a failing
call put out of every copy's reach. `mishap` records two overlaps that the code
does not exclude: a DELETE accepted on a copy that the creation still changes
(`overlap`), and a PATCH that wrote back a row that had changed since it read it
(`stalePatch`).

### `ResourceLedger`
The abstract promise: an entry is `none`, `listed` or `closed`; resources are
acquired only while it is listed, may be released at any time, may be given up,
and the entry closes only when nothing is held but what was given up.
`AdcLifecycle` implements it for ports, floating IPs and the server
(`KeepsLedger`, with `Entry` as the refinement mapping).

### `MCAdcLifecycle`, `AdcLifecycleProofs`
The instances' fault sets and the symmetry of DELETE requests; the proofs.

### `HardwareAdc`
A hardware ADC, whose POST trusts the device in the background and whose DELETE
untrusts it in its own request; no status keeps the two apart.

| Variable | In the code |
|---|---|
| `row`, `known` | the row, and the creation's copy of it, reduced to whether they name the trusted device. The status of a hardware ADC decides nothing but whether AS3 is installed after `trustAdc`, a place here |
| `place` | where `create`, `trustAdc`, `installAS3` are |
| `reclaim[d]`, `patch[p]` | DELETE and PATCH requests: where they are, and the row as they read it |
| `trusted` | whether the ASG has the device |
| `lost`, `early` | history: a failing call, poll or write, or a restart, left the device's id unknown; a request that had read the row before the id was in it removed the row or wrote it back |

`Post` writes the row before the request is checked: one that is refused with 400
leaves a row at NEW. `Serialize` is rejected without a row, and may fail with one, with
or without effect, as any statement at the database; in `trustAdc` a
rejection leads to the catch, whose own `serialize` writes the copy once more or is
rejected as well, and `installAS3` is not reached. When nothing is to write the copy
again, the device's id is `lost`. `Load`, `Untrust`, `WriteUntrustError`, `Remove`
are `deleteById`, `PatchRead` and `PatchWrite` a PATCH, whose writes may fail in the
same way, `Restart` a restart.

### `AdcCalm`, `AdcJobs`
The inductive invariant behind `NothingLeft` and `ActiveIsReal`, and the safety half
of `Settles` with its own, in modules of their own because they model no code: see
section 5.

### `AdminToken`
Every request of the service has its user token validated at Keystone, with an
admin token all requests share. A token is modelled by the time it has left.

| Variable | In the code |
|---|---|
| `bound` | the binding `InternalAdminTokenSingleton`: `local`, the time left by `expiredAt` as `digExpired` set it; `real`, by Keystone; `good` until Keystone forgets it |
| `req[r]` | request `r` in `authRequest`: where it is, the admin token it holds, and for how long its message has been on its way |
| `up` | whether Keystone answers |

- `Solve`: `solveAdminToken` takes the bound token unless it has expired.
- `Issue`, `Bind`: `adminAuthToken` at Keystone, and its reply: `digExpired` counts
  the lifetime from now, and the token is bound over whatever is bound.
- `Check`: `validateUserToken`; `authRequest` lets the request pass or answers 401.
- `SendAgain`: the client's next request. `Tick`: time passes; a message that has
  travelled for `MaxDelay` arrives first.
- `KeystoneDown`, `KeystoneUp`: Keystone stops, perhaps forgetting every token it
  issued, and comes back.

Every user token is a good one, so that a refusal is the service's own doing.
`MCAdminToken` gives the shortest lifetime the assumption allows, and
`AdminTokenProofs` holds the proofs. This component and the lifecycle share no
state: a request that is refused starts no job.

### Assumptions
- Statements one job sends for the row reach the database in the order they were
  issued, and a late write carries the copy as it is when it runs.
- A second write that a job issues while its first is not awaited is
  represented by the same `late` flag: the copy is written whole, and the
  first's effect is contained in the second's.
- The device is reached with the default password (`VE_RANDOM_PASS` unset); the
  loss of `username` and `password`, which are not persisted, is listed as a
  hazard and not modelled.
- Nova and Neutron reject the deletion of what does not exist; the ASG may answer
  either way for a device it does not know. A failed deletion of the server may
  have deleted it.
- A message to or from Keystone takes less than half of an admin token's lifetime
  (`TimesAssumption`): lifetimes are of the order of an hour, messages of seconds.
- Floating IPs that exist already and are only bound are not the ADC's own
  (`floatingIpCreated` is unset) and are not in `held`.

## 3. The portal and the parts of the service beside the lifecycle

Thirteen modules model parts that share no state with each other or with the
lifecycle. `Portal` composes them: its variable `part` says which
of them runs and never changes, and the variables of all others are pinned. No
action of one part reads or writes another's variable, so the states reached are
the disjoint union of the parts'; an interleaving of several would show nothing
more. `Portal` has the parts' constants as its own, so that its properties can be
proved for all their values, and `PortalAssumption` says what the code is given;
`MCPortal` is the small instance TLC checks.

In each of the parts requests overlap, and a step is the code between two calls
of a service. A call may fail, or take effect and lose its answer. Variables that
are marked `history` in a module are read by no guard.

- **`RoleForms`** (projects and domains). `assigned` is what Keystone has; a
  request walks through `handle()` (`step`): it reads the users' roles (`seen`),
  loops over the users it found (`left`), grants and revokes by calls of their own
  (`grant`, `revoke`), then the users that were new, then lists the groups one by
  one (`known`), and does the same with them, then the quota. The three workflows
  share the actions and differ where their code does: a domain's form counts every
  editor as being in the domain, the projects' forms do not; the creation only
  grants, and goes on to its next part when one has failed, unless Keystone answered
  401, which `exceptions.handle` raises again. `company` records whose calls have changed
  roles since the request read them: nobody's, a request's with the same form (`twin`), a
  `rival`'s.
- **`FlavorForms`**. Nova cannot edit a flavor, so `UpdateFlavor.handle` deletes and
  creates: `Get`, `GetExtras`, `Delete`, `Recreate`, `SetExtras`, `Add`, or only
  `ListAccess`, `Remove`, `Add` when nothing but the projects changed. The list of a
  public flavor is edited as well: the portal asks for version 2 of the compute API
  without a microversion (`api/nova.py` 48-50), and Nova refuses to add a project to a
  public flavor only from 2.7 on. `open` (history) marks such an edit.
- **`Paging`**. `page` is what the user sees, its first and last row the markers of
  the two links (`more`, `prev`). `Fetched` is the request for one row more than a
  page, `HasMore` and `HasPrev` are `update_pagination`. Rows are created and
  deleted between pages, the marker included.
- **`Memoized`**. A call makes a key; `locks` and `cache` say which key lies in the
  dictionary for an argument, `pc[t]` where in `wrapped` a thread is. A call that raises
  ends (`Raised`), but for a TypeError: that is taken for one of a key that cannot be
  hashed, and the function is called a second time outside of the lock (`Again`), its
  value returned and not kept; `outside` (history) has these calls. `Dies` is
  garbage collection with the callbacks of the weak references, which find entries
  only under their own key.
- **`AdcTable`**. The manager's `adcs` with their `owner`; a POST loads the table
  again for the project the user works in now (`Load`), and `Act`s on row after row:
  allowed or not, called, answered or not; `NoMatch` is the row that is no longer
  there, which breaks off the loop by a redirection. `SwitchProject` is another tab.
- **`TrunkForms`**. A form holds the trunk as it was opened (`old`) and as it shall be
  (`new`); `trunk_update` sends the difference in at most three calls.
- **`LongFilters`**. The values asked for, by length; one request, or chunks computed
  from the excess (`ChunkSize`), with the integer division and the slice of the code.
  The callers are those of `api/neutron.py`, a tuple and a frozenset.
- **`NetworkForms`**. `CreateNetwork`, `CreateSubnet`, `DeleteNetwork`, with what
  `exceptions.handle` makes of each class of error: a message, a redirection, or
  `NotAuthorized`, which leaves the workflow.
- **`Sessions`**. `store` is the cache, `cookie` and `last` the browser; a request
  loads its session whole (`Arrive`) and saves it whole (`Respond`) if it is `dirty`.
  `Login` takes the project and the region of the cookies if it can, `Switch` and
  `SwitchRegion` change them, a token expires, the cache drops a session.
- **`AppDeploy`**. What the BIG-IP runs of each application (`deployed`), the addresses
  on the external port (`fixedIps`), requests of three kinds: `deployById` (patch, and
  the whole tenant where there is none), `proxyDeploy` (bind, then the whole tenant),
  `cleanupById`.
- **`FipClaims`**. One floating address that several ADCs name: `Lookup`, then `Bind` or
  `Create`; later `DeletePort` and `DeleteFip`. What `Lookup` asks about is not the
  binding but the status, `down`, which Neutron's agents set at a time of their own
  (`Report`). `raced` marks the ADCs between whose two calls another came, `late` the
  floating IPs that were found DOWN while they were bound.
- **`BigIqTask`**. Jobs that share `BigIqManager.token`; `Assign` starts a task, `Poll`
  is `checkAndWait` with its count of tries and `taskFinished`, `ReadLicense` asks
  once more. Tokens age; a FAILED task rejects a promise nobody holds and counts as
  "not yet".
- **`HardwareAdc`**, described above.

The other sides (Keystone, Nova, Neutron, Cinder, Django's cache, the BIG-IP) are
modelled from how the code uses them, and marked external in `PROJECT.json`. The
portal runs on Python 2 (CentOS 7, by its Dockerfile): `not filter(...)` finds
empty lists, and `/` divides integers.

## 4. What the runs check

| Run | Question | Instance | Result |
|---|---|---|---|
| `adc_safety` | what the row knows, what is left, what ACTIVE means | two networks, one with a floating IP; two DELETEs; every call may fail; restarts | passes, 1.6M states |
| `adc_patch` | the same under a PATCH, with a license key of the request's own, by the two inductive invariants; no job goes back | two networks, one DELETE, one PATCH, every fault, restarts | passes, 1.4M states |
| `adc_live` | every job ends in a settled status, a failure, or no row; until then a row in progress has a job at work | one network, two DELETEs, faults in five places, no restart, fair jobs | passes |
| `adc_reclaim` | an accepted DELETE removes the row when no step of it fails | one network, two DELETEs, failing stages after the server is up | passes |
| `adc_retry` | "Please try again." would complete when nothing fails | the port creation fails | violated: finding 1 |
| `adc_patch_status` | PATCH does not change the status | one PATCH, no DELETE | violated: finding 2 |
| `adc_reclaimed` | RECLAIMED means what its check says | one network, one DELETE, every fault | violated: finding 3 |
| `token_serves` | concurrent requests are served with the token they share | three requests, delays up to 2, lifetime 5; Keystone fails and forgets | passes, 600k states |
| `token_expiry` | the recorded expiry is not later than the actual one | one request, the same times | violated: finding 4 |
| `portal` | what a form, a table, a session, a license, a deployment reports is what has become of it | thirteen parts, see the bounds | passes, 1.4M states |
| `flavor_public` | "If no projects are selected, then the flavor will be available in all projects." | two edits, two projects | violated: finding 5 |
| `deploy_says` | 204 means deployed, 422 means not | two applications, two requests | violated: finding 6 |

**The lifecycle's properties.** `NothingForgotten`: from the moment the row leaves
POWERING it names every port, floating IP and server that exists, although creation,
two DELETEs and a PATCH all write whole copies over each other. `NoInfraLeft`: when
the row is gone, no such resource is left except those in `astray`. `NothingLeft`
extends this to the trusted device and the license, which are safe only without
a `mishap`: licensing has no in-progress status, so a DELETE is accepted while
they are still being acquired. `ActiveIsReal`: ACTIVE implies server, trust and
every installed feature. `KeepsLedger`: the refinement. `Settles` and
`ReclaimCompletes`: liveness. `Attended` and `JobsAdvance`: what `Settles` rests on
besides fairness. A row that is NEW or in progress has a job at work that has yet to
write it, whichever of the overlapping jobs wrote last and whichever of them failed
(except after a restart, which loses the jobs, and after a stale PATCH, which may put
an in-progress status back that nobody replaces: finding 2); and no step takes a job
back, so that for finitely many networks each comes to an end. `InfraInv` and
`CalmInv`: the inductive invariants of the proofs, checked here before they were
proved; between them they imply the four safety properties.

`DeviceFindable` (hardware): a trusted device is named by the row or about to be,
whatever fails and overlaps, except where its id is `lost` or a request that had read
the row `early` removed it or wrote it back. Both exceptions happen: a DELETE while
`trustAdc` waits finds nothing to untrust, removes the row, and the device stays; so it
does when the call or the poll that trusts it, or every write of its id, fails.

`FreshTokenServes`: a request that has just renewed the admin token is never
refused for the token's age, although the recorded expiry is late by the time the
reply took and other requests bind tokens in between. `KeepsServing`: once Keystone
stays up, requests are served again and again; a binding that Keystone forgot
is replaced in the end, because it still expires by the clock. That it is only
replaced then, while requests are answered 401, is among the hazards. `SkewInv` is
the inductive invariant behind the first.

**The other properties.**

| Part | Properties | What they say, and what they except |
|---|---|---|
| roles | `TakesEffect`, `StaysBetween`, `KeepsMembers`, `KeepsOwnAdmin`, `RoleInv` | success means the form; at any point nothing has changed but what the form changes; nobody who is to have a role is without one in between; editors keep their own administrator's role. The first three only while no other form (the third: no other request) is at work on the same project: with a rival they do not hold, since both diff with what they once read |
| flavors | `EditTakesEffect`, `NotLostSilently` | success means one flavor, as the form says, if nobody else edited it; a public flavor of which only the choice of projects changed is excepted: it lists them, and stays open to all; a flavor is lost only with an error message, even with two editors |
| tables | `LinksAreTrue`, `NothingSkipped` | the links of a page just loaded are there when there is something to see; paging to an end has shown every row that stayed |
| memoized | `CalledOnce`, `NothingKept` | under the lock one value per argument, and the function never twice at a time; what is got outside of it, after a TypeError of the function, may differ and is returned by no other call; nothing kept for a dead argument, but the lock where two threads worked on it at a time or a call raised |
| ADC table | `SaidIsDone`, `EveryRowAccounted` | "Scheduled deletion" only of what the manager took, in the user's project; each row in one message, unless a row was no longer there |
| trunks | `NoConflict`, `EditsMerge` | a form alone is never refused for the order of its calls; forms undo only what they changed |
| filters | `AllAskedFor` | if one value has room in a URI, chunks are neither refused nor incomplete |
| networks | `WholeOrNothing` | both or neither, or an error message and a failed call about the network itself; a refusal for want of rights is excepted |
| sessions | `SessionCoheres` | project and region belong together and are the last ones chosen, except where a request saved what it had loaded before another one's save; a session that is over never comes back |
| applications | `AddressesServe`, `SparesOthers` | a declaration reported deployed has its address on the port, except where two requests read and wrote the port at a time; a deployment by the default declaration touches no other application there when it was asked |
| floating IPs | `RecordedIsBound`, `UsersFipStays` | an ADC has the address it records, unless another raced it or the floating IP was found DOWN when it was bound, because its status was late; a user's own floating IP is never deleted |
| licenses | `OutcomeFollowsTask` | a license only for a FINISHED task; a failed job was not told otherwise |
| all | `PartsTypeOK` | the types; for the tries of a poll, that they never pass zero |

**Findings.** (1) Reclaiming an ADC whose server never came up fails at every try:
the license step dereferences the missing connection before any port is deleted.
(2) A PATCH puts an old status back. (3) `deleteOn` writes RECLAIMED on a record
that still names the trusted device, and perhaps ports, which the check of that
state and its test rule out. (4) The comment in `digExpired` wants the recorded
expiry a little earlier than the actual one; it is later. (5) A flavor that is not
public and is saved with no project selected is open to none, though the form says to
all: `modify_access` edits the list and not `is_public`. The run's trace is the shortest,
of a flavor whose list is empty already; taking the last project off a list ends in the
same way. (6) `deployById` acts on one error
of the patch, a missing path, and answers 204 to all others.

Met while modelling, and not among the findings because no text of the repository
says otherwise:

- A hardware POST refused with 400 leaves its row at NEW.
- A hardware DELETE whose untrusting took effect but lost its answer can never
  succeed, if the ASG refuses to untrust what is gone.
- Start, Stop and Soft Reboot of the ADC table ask Nova for a server with the ADC's id
  (`f5adc/tables.py` 809, 842, 173), which is not a server's: they report a failure.
- `CreateProject.handle` returns True when members, groups or quota failed.
- A 401 or 403 of the subnet's creation leaves the network behind.
- After a rollback that succeeded the user sees "Delete the created network" and an
  error message of the workflow.
- The mirror of finding 5: a public flavor for which projects are selected, and nothing
  else is changed, gets them on its list and stays open to all, with a message that it was
  modified.
- The docstring of `memoized` says that the cached value is returned instead of calling
  the function again. After a TypeError of the function itself it is called again
  (`memoized.py` 96-105), outside of the lock, whatever is cached by then. The code's
  comment explains the branch by keys that cannot be hashed, which need it.
- Whether a floating IP is free is decided by its status (`adc.controller.ts` 674).
  Neutron's agents set that after the binding, so an ADC may take away a floating IP
  another has just bound, though none of their calls overlapped.
- A frozenset of addresses cannot be sliced (`api/neutron.py` 1635-1637), so long lists
  of servers end with an error; a computed chunk size of 0 is a `ValueError`, and one
  below 0 an empty list.

**Bounds and why they are enough.** There is one creation per ADC by construction
(one POST, one job). Two DELETEs give every overlap of a pair and the retry after
a failure; the code keeps no count, so a third meets the same copies. Two
networks exercise the loops of `cNet` and `deleteOn` in both orders, with and
without a floating IP. The proofs have none of these bounds. The liveness runs use
smaller instances because TLC checks liveness without symmetry; their fault sets
are the points where jobs end differently.

Of the admin token's requests, two are enough for renewals that overtake each
other, and a third uses what they leave; with a delay of 2 a reply and a
validation can be late by different amounts, and at the shortest lifetime the skew
is as large as it may be relative to it. Deadlock is checked in these runs.

In `portal`: two requests of the role forms, for users ann and bob, an outsider and
one group, two roles one of which is the administrator's, so that a twin, a rival, an
own role and a foreign one occur; two flavor edits and three flavor ids, the old one
and one for each; seven rows of a table in pages of two, four pages with rows born
and deleted between them; three threads and four calls on two arguments, so that
two race, the second call after a TypeError meets one under the lock, and a third
meets what they left; two ADCs, two POSTs and two projects; two
ports times two segments, which can change places, and two forms; two
applications, three requests of one content, so that two overlap and a third follows;
three ADCs on one address with up to three floating IPs after the user's; two jobs,
three tries and three tokens, so that a token expires under a job while the other
renews it; up to four values of up to three characters with a URI of 14, which
gives chunks of every size, 0 and below included; two logins, two requests, two
projects with one and two regions; two hardware DELETEs and a PATCH. What
`Symmetry` permutes (requests, projects, ADC ids) is only compared for equality.

`CHECK_DEADLOCK FALSE` is there because requests are finite, and a served system
stops.

**Fairness.** `Creation` and the steps of an accepted DELETE are weakly fair:
Node's event loop keeps running a job it has started, and every poll ends because
`checkAndWait` counts down its tries (its external calls have timeouts or answer).
Requests (POST, DELETE, PATCH) and restarts are not fair. In `AdminToken`, time
passes, messages arrive, and each client comes again (`KeepsServing` speaks of a
service that is used); Keystone's failures and recoveries are not fair. The portal's
parts state no fairness: a web request ends with its thread or its user's
patience, and their properties are of safety.

**Mutants.** Every property of a passing run has a mutant in the module, next to
the definition it alters (a write that inserts, a server that is not recorded, a
lenient error path, a missing status write, a swapped order, ...), with which TLC
finds the property violated.

## 5. What is proved

Each proof module proves an invariant inductive, for every value of the constants,
and draws the properties from it. The constants' assumptions are those named here.

`AdcLifecycleProofs`, from `ConstantsAssumption` (the floating IPs asked for are of the
ADC's networks, `NoNet` is none of them, the flags are Booleans, `Faults` are fault
points), for any networks, DELETEs, PATCHes and faults, with or without restarts and
with either kind of license:

- `InfraInvariance`: `Spec => []InfraInv`; from it `TypeCorrect`, `RowForgetsNothing`,
  `InfraReleased`: `TypeOK`, `NothingForgotten`, `NoInfraLeft` are invariants
- `LedgerRefined`: `Spec => KeepsLedger`
- `CalmInvariance`: `Spec => []CalmInv`; with the above `NothingIsLeft` and
  `ActiveMeansReal`: `NothingLeft` and `ActiveIsReal` are invariants
- `WorkInvariance`: `Spec => []WorkInv`; from it `RowsAttended`, `JobsOnlyAdvance`:
  `Attended` is an invariant, `JobsAdvance` holds of every step

*The argument for the infrastructure.* `NothingForgotten` speaks of the row, but any
copy may become the row, so it must hold of every copy that can still be written:
`WritersKnow`. For that the copies must have been read when nothing more was to be
acquired: while `createOn` acquires infrastructure, the row and every copy read from it
have the status NEW or POWERING, from which `readyTo` admits no DELETE
(`CreationExclusive`); the creator's own copy knows each resource at once
(`CreatorKnows`). Afterwards the set of what is owned only shrinks, so a copy that
knew it keeps knowing it, however old. `NoInfraLeft` needs that a `deleteOn` that
reaches the removal has released everything it knew, or lost it to a failing
call: `Progress` measures how far each has come, even when another DELETE releases
under it, and `CopiesPaired` (a floating IP is recorded only beside its port)
makes its loop over ports reach the floating IPs. The refinement then needs one
case per action: an acquisition, a release, a loss, the closing, or a stutter.

*The argument for license, trust and ACTIVE.* These are acquired under statuses that
admit a DELETE, so the invariant holds only while no overlap has happened:
`CalmInv == mishap = {} => Calm`. Then the creation is over before a DELETE is
accepted, and it is enough to know two things of every place of the creation: the
statuses its copy may have there (`Fits`) and what each status says of the resources
and of the device (`Says`). The trusted device needs a clause of its own, because its id
reaches the record only at the end of the poll: until then the row says TRUSTING, from
which no DELETE is accepted, also after a restart (`StuckTrusting`), and from then on
the row and every DELETE that is accepted name it (`RowTrusts`, `ReclaimCalm`), in the
order in which `deleteOn` untrusts and revokes.

*The argument for settled rows.* `WorkInv` says what `Attended` leaves open: that the
creation comes to a gate past `createOn` only with a settled status in its copy
(`CreatorSettled`), so that the job may end there, or write late, without leaving the
row in progress; and that a row in progress has the creation inside a stage, a write
pending, or an accepted DELETE (`RowAwaited`), each of which replaces the status before
it ends. `JobsAdvance` orders the places of the jobs: the stages and their phases, and in
the two loops over the networks the ports that are left, which a step may only reduce.
`WorkInvariance`, `RowsAttended`, `JobsOnlyAdvance` prove these with one lemma per
operation. What is missing to `Settles` is that a job can always take a step and, being
treated fairly, does: ENABLED and fairness, which stay with the run `adc_live`.

`RoleFormsProofs`, from `RoleFormsAssumption` (users, outsiders and groups are
different principals, forms and starting roles are of their types), for any of them
and any number of requests: `RoleInvariant` proves `RoleInv`, and
`RequestsStayBetween`, `RequestsKeepMembers`, `RequestsTakeEffect`,
`EditorsKeepOwnAdmin` the four properties. The calls a request has before it agree with
its form (`CallsOK`) and spare its editor (`OwnAdminOK`); what it knows is what was
assigned when it read it (`ReadOK`); a pending revocation has the grants before it
(`OrderOK`); the principals its loops have passed are as the form says, up to the
pending calls (`ProgressOK`). A twin needs nothing else: both work from forms that agree,
so that what one grants or revokes the other wants granted or revoked.

`PartsProofs` shows that the composition is its parts: `PartsImplemented` proves that
`PortalSpec` implements the specification of the part that runs, and `StepOfPart` gives
the other proof modules, for a step of the whole, the step of a part. All they prove is
proved of `PortalSpec` itself, from `PortalAssumption`: ids can be given out and pages hold
a row (`MaxId` and `Size` are positive), the other bounds are numbers, `None` is not one of
what it stands beside, and every project has a region, one of those there are. TLC
evaluates the assumption in the run `portal`. No bound of that run is used: the
theorems hold for any number of requests, threads, rows, ADCs, tries, tokens, values.

`ServiceProofs`:

- `OutcomeFollows` (`BigIqTask`): what a job was told is tied to its place (`TaskInv`).
- `HardwareInvariance`, `DeviceStaysFindable` (`HardwareAdc`): until the device is named,
  whoever has read the row is marked early (`ReadersEarly`); from then on the creation's
  copy names it (`PlaceOK`), written or yet to be written again, and so does every copy a
  request may write back, or the device is let go before the row goes (`RequestOK`).
- `DeployInvariance`, `DeploymentsSpareOthers`, `AddressesStay` (`AppDeploy`): the BIG-IP
  without a partition runs nothing, so whoever goes on to declare a whole tenant found
  nothing there (`Deploying`); an address that was bound without an overlap is on the port
  and in every list of addresses that is about to be written (`Bound`).
- `RecordedStaysBound`, `UsersFipIsSpared` (`FipClaims`): what an ADC records as created is
  not the user's own (`FipsKnown`), is recorded by no other (`FipsDistinct`), and was found
  free by nobody while it is bound, unless its status was late (`OwnFip`); and while nobody
  has raced an ADC and its floating IP's status was not late, nobody is about to bind,
  create or delete what it has recorded (`BoundAlone`). Nothing is assumed of when the
  agents report.

`FormsProofs`:

- `NetworkWholeOrNothing` (`NetworkForms`): what a request was told is tied to its place.
- `FlavorInvariance`, `EditsTakeEffect`, `FlavorsNotLost` (`FlavorForms`): while nobody else
  interferes the flavor is as the form says up to the calls still pending (`Edited`), and
  one edited in place is as public as it was, which `open` remembers; there
  is one flavor or somebody who knows that there is none (`OneFlavor`, `Known`).
- `UpdatesDoNotConflict`, `UpdatesMerge` (`TrunkForms`): where a form is alone the trunk is a
  function of its place among its calls (`TrunkAlone`); where it is not, what it has added
  or dropped is changed only by another form's difference (`TrunkMerged`).

`ListsProofs`:

- `MemoizedCalledOnce`, `MemoizedKeepsNothing` (`Memoized`): a thread past `locks[key]`
  holds or awaits the lock that every other finds for its argument, which lives
  (`ThreadOK`); what a call with a living argument has returned from under the lock is
  what is kept, what it got outside of it is its own (`CallOK`, `SameValues`), and nothing of that
  is ever kept (`KeptOK`); and as long as its calls came one at a time and none raised,
  the two entries of an argument lie under one key (`EntriesOK`), which is what
  `remove()` needs.
- `PagesLinkTruly`, `PagesSkipNothing` (`Paging`): what lies ahead of the page in the
  direction of travel is beyond all of its rows, and without a link nothing is owed
  (`PageInv`). Its lemmas are about the cut of an answer to n rows, in either direction: the
  first n rows are n, or all there are (`FirstRows`), what is left lies beyond them, and a
  page is what is fetched up to the row too many (`PageOf`, `LoadedDown`, `LoadedUp`); they
  rest on the library's facts about cardinalities.
- `ChunksFit` (`LongFilters`): every value takes at most `FilterMaxLen`, so a chunk of
  `ChunkSize` values fits into what the other conditions leave (`FilterLenBounded`, `Divides`),
  and what has been asked for is always a prefix of the values (`Listed`). That a sum of n
  lengths is at most n times the largest is induction over data; `SumBounded` proves it from
  the least number for which it would fail (`HasLeast`), which needs no induction principle.

`PortalProofs`:

- `TableInvariance`, `SaidIsAlwaysDone`, `RowsAccounted` (`AdcTable`): the rows a loop has
  come past are in exactly one list each, and what the manager took is in the lists
  (`Accounted`).
- `SessionInvariance`, `SessionsCohere` (`Sessions`): what a request holds is the session as
  the login left it or coherent, and as long as nobody saved after it, the session itself
  (`Loaded`).
- `PartsTyped`: every part keeps to its types, from all the invariants above. They are needed
  for it: that a poll's tries never pass zero, that a switched region is one of those there
  are, or that a chunk is one of values there are, are consequences and no
  type declarations.

`AdminTokenProofs`, from `TimesAssumption`: `SkewInvariance`, which contains `TypeOK`, and
`RenewalServes`: `Spec => []FreshTokenServes`. The skew of a token is fixed when it is
bound, at no more than the age of the reply that brought it, which is at most
`MaxDelay` (`ReplyAge`); afterwards both of its clocks run alike. A token with all but
`MaxDelay` of its recorded lifetime left therefore has at least
`Lifetime - 2 * MaxDelay` left, which is positive.

**Only model-checked.** `Settles`, `ReclaimCompletes` and `KeepsServing`: liveness is
out of the prover's reach. Every invariant and action property that a passing run checks
is proved. That TLC checks them as well is no repetition: a run shows
that the cases a theorem speaks of happen, and its mutants that the property can fail.

## 6. Not modelled, and the plan

Of the service: the tenant associations and read requests of ADCs; the resources'
CRUD (one row each, no background work); rows of applications and declarations beyond
what a deployment reads of them; WAF policies; generated schemas, AS3 text and the
onboarding body, which are data without a state of their own. The credentials
`username` and `password` of an ADC, which are not persisted, are outside the models:
the hazard at `adc.model.ts` 219 has no property. Nor has the one at
`adc.controller.ts` 777, whose outcome is in `AdcLifecycle` (a DELETE that is tried again
after the server's deletion lost its answer fails for ever), because no text of the
repository promises the opposite.

Of the portal: most of its 72k lines are stock panels of Horizon, which list a
service's resources or pass one call on, and rendering, registration and forms, which
keep no state between requests; the state machines in them that overlap or fail in the
middle are those modelled here. The definitions map to some 2,600 lines of Python, under 4% of
the portal, and to 2,100 lines of the service's TypeScript. Modelling the panels one
by one would repeat `Paging`, `AdcTable` and `NetworkForms` with other names, and a
share of 30% cannot be reached by definitions that translate something. Also not
modelled: federated sign-in (websso, K2K) and the Keystone v2 variants, the creation of a
domain, and the launch wizard of the ADC panel, which posts one `adc_create`.

The plan, most important first:

1. A refinement of each part of `Portal` that promises an outcome (a table's batch, a
   form's update) to one atomic step, where requests do not overlap.
2. Credentials in `AdcLifecycle`: the device's password as set by onboarding, and the jobs
   that load the ADC again without it.
3. The launch of instances in the portal, with its quota checks, ports and volumes.
4. Declarations as snapshots of rows that change while they are assembled.
