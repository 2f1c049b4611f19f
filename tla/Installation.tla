----------------------------- MODULE Installation -----------------------------
(***************************************************************************)
(* A host on which 5gws is installed and uninstalled (internal/app,        *)
(* internal/installer) while certbot renews the certificate and the panel  *)
(* is used.  Commands are run one at a time and each may break off between *)
(* any two of its steps; the deployments of a certificate, certbot's hook  *)
(* and the same command run by hand, overlap with everything.              *)
(*                                                                         *)
(* A certificate and its key are the number of the issue they belong to.   *)
(* An installation is always repeated with the same values: with others    *)
(* it is refused before it has done anything.                              *)
(***************************************************************************)
EXTENDS Sessions

CONSTANTS
    Deployers,          \* deployments at one time
    Hook                \* the one that certbot's hook runs

ASSUME InstallationAssumption ==
    /\ Hook \in Deployers
    /\ {"whole", "install", "mixed"} \cap Deployers = {}

VARIABLES
    runtime,            \* each binary: "missing", "sound", "damaged"
    archive,            \* what install has downloaded, "none" or as above
    live,               \* /etc/letsencrypt/live, 0: nothing issued
    cert, key,          \* the files smartdns reads, 0: none
    pair,               \* history: who wrote the certificate and not yet its key,
                        \* "install" or a deployment; "whole": each had its key;
                        \* "mixed": a key or a renewal came between
    hook,               \* the deploy hook exists
    db,                 \* "none", "bare": only its directory exists, "empty": opened
                        \* but not initialised, "ready"
    unit,               \* 5gws.service: "none", "cut", "whole"
    service,            \* "stopped", "running", "orphaned": its database was removed
    served,             \* certificate and key the service started with
    cmd,                \* where root's command is
    existing,           \* install found a database
    purge,              \* uninstall --purge
    refused,            \* the last install could not reuse the database
    deploys             \* where each deployment is and what it has read

binaries == <<runtime, archive>>
written == <<cert, key, pair>>
files == <<binaries, live, written, hook, db, unit>>
systemd == <<service, served>>
options == <<existing, purge, refused>>
vars == <<sessionVars, files, systemd, cmd, options, deploys>>

Runtime == {"smartdns", "sslocal"}
Cut == -1               \* a file whose writing broke off

NotDeploying == [at |-> "idle"]

Init ==
    /\ SessionsInit
    /\ runtime = [b \in Runtime |-> "missing"] /\ archive = "none"
    /\ live = 0 /\ cert = 0 /\ key = 0 /\ pair = "whole" /\ hook = FALSE
    /\ db = "none" /\ unit = "none"
    /\ service = "stopped" /\ served = <<0, 0>>
    /\ cmd = "idle" /\ existing = FALSE /\ purge = FALSE /\ refused = FALSE
    /\ deploys = [d \in Deployers |-> NotDeploying]

-----------------------------------------------------------------------------
(* A deployment that began alone is calm until something else begins that  *)
(* writes the same files.                                                  *)
Disturbed ==
    [d \in Deployers |->
        IF deploys[d].at = "idle" THEN deploys[d] ELSE [deploys[d] EXCEPT !.calm = FALSE]]

Alone == cmd = "idle" /\ \A d \in Deployers : deploys[d].at = "idle"

Goto(next) == cmd' = next

(* A writer of the pair: the certificate first, then its key.              *)
Overwritten == IF pair = "whole" THEN "mixed" ELSE pair

CertificateBy(writer) == pair' = writer
KeyBy(writer) ==
    pair' = IF pair = writer THEN "whole" ELSE Overwritten

Starts == service' = "running" /\ served' = <<cert, key>>
Stops == service' = "stopped" /\ served' = <<0, 0>> /\ PanelEnds

-----------------------------------------------------------------------------
(* install.                                                                *)

(* Mutant: a database without an active revision is taken for one that has *)
(* one.                                                                    *)
loadAnyBundle == IF db \in {"none", "bare"} THEN "nothing" ELSE "bundle"

loadExistingBundle ==
    IF db \in {"none", "bare"} THEN "nothing" ELSE IF db = "empty" THEN "error" ELSE "bundle"

BeginInstall ==
    /\ cmd = "idle"
    /\ refused' = (loadExistingBundle = "error")
    /\ IF loadExistingBundle = "error" THEN UNCHANGED <<cmd, existing, deploys>>
       ELSE /\ existing' = (loadExistingBundle = "bundle")
            /\ Goto("smartdns") /\ deploys' = Disturbed
    /\ UNCHANGED <<accounts, panel, files, systemd, purge>>

AfterBinary == Goto(IF cmd = "smartdns" THEN "sslocal" ELSE "certificate")

(* ensureSmartDNS and ensureSSRust: what is there already is kept.         *)
EnsureRuntime ==
    /\ cmd \in Runtime /\ runtime[cmd] # "missing"
    /\ AfterBinary
    /\ UNCHANGED <<sessionVars, files, systemd, options, deploys>>

(* curl fetches the archive and its checksum.                              *)
Download ==
    /\ cmd \in Runtime /\ runtime[cmd] = "missing" /\ archive = "none"
    /\ \/ archive' = "sound" /\ UNCHANGED events
       \/ archive' = "damaged" /\ Unasked
    /\ UNCHANGED <<accounts, panel, runtime, live, written, hook, db, unit, systemd, cmd>>
    /\ UNCHANGED <<options, deploys>>

(* Mutant: the archive is unpacked without a look at its checksum.         *)
InstallUnverified ==
    /\ cmd \in Runtime /\ archive # "none"
    /\ archive' = "none"
    /\ runtime' = [runtime EXCEPT ![cmd] = archive] /\ AfterBinary
    /\ UNCHANGED <<sessionVars, live, written, hook, db, unit, systemd, options, deploys>>

(* sha256sum, tar and installFileAtomic: a binary appears whole, by a      *)
(* rename, and the directory of the download is removed in any case.       *)
InstallArchive ==
    /\ cmd \in Runtime /\ archive # "none"
    /\ archive' = "none"
    /\ IF archive = "sound"
       THEN runtime' = [runtime EXCEPT ![cmd] = archive] /\ AfterBinary
       ELSE UNCHANGED runtime /\ Goto("idle")
    /\ UNCHANGED <<sessionVars, live, written, hook, db, unit, systemd, options, deploys>>

(* certbot keeps what is not expiring, and does not run while another      *)
(* certbot runs the hook.                                                  *)
ensureCertificate ==
    /\ cmd = "certificate"
    /\ IF cert # 0 /\ key # 0
       THEN Goto("hook") /\ UNCHANGED live
       ELSE /\ deploys[Hook].at = "idle"
            /\ Goto("copy certificate") /\ live' = IF live = 0 THEN 1 ELSE live
    /\ UNCHANGED <<sessionVars, binaries, written, hook, db, unit, systemd, options, deploys>>

CopyCertificate ==
    /\ cmd = "copy certificate"
    /\ cert' = live /\ CertificateBy("install") /\ Goto("copy key")
    /\ UNCHANGED <<sessionVars, binaries, live, key, hook, db, unit, systemd, options, deploys>>

CopyKey ==
    /\ cmd = "copy key"
    /\ key' = live /\ KeyBy("install") /\ Goto("hook")
    /\ UNCHANGED <<sessionVars, binaries, live, cert, hook, db, unit, systemd, options, deploys>>

ensureCertificateDeployHook ==
    /\ cmd = "hook"
    /\ hook' = TRUE /\ Goto(IF existing THEN "unit" ELSE "directory")
    /\ UNCHANGED <<sessionVars, binaries, live, written, db, unit, systemd, options, deploys>>

(* store.Open creates a database that is not there, not its directory.     *)
Opened == IF db = "bare" THEN "empty" ELSE db

(* initializeService: the directory, the database with its tables, its     *)
(* first revision, and the administrator, each a step of its own.          *)
MakeStateDir ==
    /\ cmd = "directory"
    /\ db' = IF db = "none" THEN "bare" ELSE db
    /\ Goto("open")
    /\ UNCHANGED <<sessionVars, binaries, live, written, hook, unit, systemd, options, deploys>>

OpenDatabase ==
    /\ cmd = "open"
    /\ db' = Opened /\ Goto("initialize")
    /\ UNCHANGED <<sessionVars, binaries, live, written, hook, unit, systemd, options, deploys>>

Initialize ==
    /\ cmd = "initialize"
    /\ db' = "ready" /\ Goto("administrator")
    /\ UNCHANGED <<sessionVars, binaries, live, written, hook, unit, systemd, options, deploys>>

InitializeAdmin ==
    /\ cmd = "administrator"
    /\ SetPassword /\ Goto("unit")
    /\ UNCHANGED <<panel, events, files, systemd, options, deploys>>

writeServiceUnit ==
    /\ cmd = "unit"
    /\ unit' = "whole" /\ Goto("enable")
    /\ UNCHANGED <<sessionVars, binaries, live, written, hook, db, systemd, options, deploys>>

(* systemctl enable --now starts a service that does not run.              *)
EnableService ==
    /\ cmd = "enable" /\ Goto("idle")
    /\ IF service = "stopped" THEN Starts ELSE UNCHANGED systemd
    /\ UNCHANGED <<sessionVars, files, options, deploys>>

-----------------------------------------------------------------------------
(* uninstall, which goes on when a step has failed, but for the removals.  *)

BeginUninstall(all) ==
    /\ cmd = "idle"
    /\ purge' = all /\ refused' = FALSE
    /\ Goto("unhook") /\ deploys' = Disturbed
    /\ UNCHANGED <<accounts, panel, files, systemd, existing>>

(* Mutant: a database without a revision ends uninstall, too.              *)
removeHookOrEnd ==
    /\ cmd = "unhook"
    /\ hook' = (hook /\ db # "ready")
    /\ Goto(IF loadExistingBundle = "error" THEN "idle" ELSE "disable")
    /\ UNCHANGED <<sessionVars, binaries, live, written, db, unit, systemd, options, deploys>>

(* Without an active revision the hook's name is not known and it stays.   *)
removeCertificateDeployHook ==
    /\ cmd = "unhook"
    /\ hook' = (hook /\ loadExistingBundle # "bundle") /\ Goto("disable")
    /\ UNCHANGED <<sessionVars, binaries, live, written, db, unit, systemd, options, deploys>>

DisableService ==
    /\ cmd = "disable" /\ Goto("remove unit")
    /\ \/ Stops /\ UNCHANGED events
       \/ Unasked /\ UNCHANGED <<systemd, panel>>
    /\ UNCHANGED <<accounts, files, options, deploys>>

RemoveUnit ==
    /\ cmd = "remove unit" /\ Goto(IF purge THEN "purge state" ELSE "idle")
    /\ unit' = "none"
    /\ UNCHANGED <<sessionVars, binaries, live, written, hook, db, systemd, options, deploys>>

PurgeState ==
    /\ cmd = "purge state" /\ Goto("purge config")
    /\ db' = "none"
    /\ service' = IF service = "stopped" THEN service ELSE "orphaned"
    /\ admin' = 0 /\ made' = 0 /\ sessions' = <<>>
    /\ PanelEnds
    /\ UNCHANGED <<events, binaries, live, written, hook, unit, served, options, deploys>>

PurgeConfig ==
    /\ cmd = "purge config" /\ Goto("idle")
    /\ cert' = 0 /\ key' = 0 /\ pair' = "whole"
    /\ UNCHANGED <<sessionVars, binaries, live, hook, db, unit, systemd, options, deploys>>

(* reset-admin works on any database that opens.                           *)
ResetAdmin ==
    /\ cmd = "idle" /\ db # "none"
    /\ SetPassword /\ db' = Opened
    /\ UNCHANGED <<panel, binaries, live, written, hook, unit, systemd, cmd, options, deploys>>

-----------------------------------------------------------------------------
(* A command is killed, or a step fails: what it wrote remains, a file of  *)
(* WriteFile perhaps incomplete.                                           *)
Breaks ==
    /\ cmd # "idle" /\ Unasked /\ Goto("idle")
    /\ \/ UNCHANGED written
       \/ cmd = "copy certificate" /\ cert' = Cut /\ CertificateBy("install") /\ UNCHANGED key
       \/ cmd = "copy key" /\ key' = Cut /\ pair' = Overwritten /\ UNCHANGED cert
    /\ unit' \in {unit} \cup (IF cmd = "unit" THEN {"cut"} ELSE {})
    /\ hook' \in {hook} \cup (IF cmd = "hook" THEN {FALSE} ELSE {})
    /\ archive' = "none"
    /\ UNCHANGED <<accounts, panel, runtime, live, db, systemd, options, deploys>>

-----------------------------------------------------------------------------
(* deploy-certificate.                                                     *)

(* certificateConfig: the domain comes from the active revision; without   *)
(* one the command fails, and leaves a database where there was none.      *)
BeginDeploy(d) ==
    /\ deploys[d].at = "idle" /\ db' = Opened
    /\ deploys' =
          IF db # "ready" THEN deploys
          ELSE [Disturbed EXCEPT ![d] = [at |-> "read", cert |-> 0, key |-> 0, calm |-> Alone]]

DeployByHand(d) ==
    /\ d # Hook /\ live # 0 /\ BeginDeploy(d) /\ Unasked
    /\ UNCHANGED <<accounts, panel, binaries, live, written, hook, unit, systemd, cmd, options>>

(* certbot's timer, not while another certbot runs; the hook may be        *)
(* missing.                                                                *)
Renew ==
    /\ live # 0 /\ deploys[Hook].at = "idle" /\ Unasked
    /\ live' = live + 1
    /\ pair' = IF cmd = "copy key" /\ pair = "install" THEN "mixed" ELSE pair
    /\ IF hook THEN BeginDeploy(Hook) ELSE UNCHANGED <<db, deploys>>
    /\ UNCHANGED <<accounts, panel, binaries, cert, key, hook, unit, systemd, cmd, options>>

ReadCertificate(d) ==
    /\ deploys[d].at = "read"
    /\ deploys' = [deploys EXCEPT ![d] = [@ EXCEPT !.at = "read key", !.cert = live]]
    /\ UNCHANGED <<sessionVars, files, systemd, cmd, options>>

(* Mutant: the pair is not checked.                                        *)
ReadKeyUnchecked(d) ==
    /\ deploys[d].at = "read key"
    /\ deploys' = [deploys EXCEPT ![d] = [@ EXCEPT !.at = "certificate", !.key = live]]
    /\ UNCHANGED <<sessionVars, files, systemd, cmd, options>>

(* validateCertificatePair: certificate and key are of one issue.          *)
ReadKey(d) ==
    /\ deploys[d].at = "read key"
    /\ deploys' = IF live = deploys[d].cert
                  THEN [deploys EXCEPT ![d] = [@ EXCEPT !.at = "certificate", !.key = live]]
                  ELSE [deploys EXCEPT ![d] = NotDeploying]
    /\ UNCHANGED <<sessionVars, files, systemd, cmd, options>>

(* writeCertificateFile: a temporary file and a rename.                    *)
ReplaceCertificate(d) ==
    /\ deploys[d].at = "certificate"
    /\ cert' = deploys[d].cert /\ CertificateBy(d)
    /\ deploys' = [deploys EXCEPT ![d] = [@ EXCEPT !.at = "key"]]
    /\ UNCHANGED <<sessionVars, binaries, live, key, hook, db, unit, systemd, cmd, options>>

ReplaceKey(d) ==
    /\ deploys[d].at = "key"
    /\ key' = deploys[d].key /\ KeyBy(d)
    /\ deploys' = [deploys EXCEPT ![d] = [@ EXCEPT !.at = "restart"]]
    /\ UNCHANGED <<sessionVars, binaries, live, cert, hook, db, unit, systemd, cmd, options>>

(* systemctl restart also starts a service that was stopped.               *)
RestartService(d) ==
    /\ deploys[d].at = "restart" /\ unit = "whole"
    /\ deploys' = [deploys EXCEPT ![d] = NotDeploying]
    /\ Starts /\ PanelEnds
    /\ UNCHANGED <<accounts, events, files, cmd, options>>

RestartFails(d) ==
    /\ deploys[d].at = "restart" /\ unit # "whole"
    /\ deploys' = [deploys EXCEPT ![d] = NotDeploying]
    /\ UNCHANGED <<sessionVars, files, systemd, cmd, options>>

(* A step fails, nginx does not reload, or the command is killed.          *)
DeployBreaks(d) ==
    /\ deploys[d].at # "idle" /\ Unasked
    /\ deploys' = [deploys EXCEPT ![d] = NotDeploying]
    /\ UNCHANGED <<accounts, panel, files, systemd, cmd, options>>

-----------------------------------------------------------------------------
InstallStep ==
    \/ EnsureRuntime \/ Download \/ InstallArchive
    \/ ensureCertificate \/ CopyCertificate \/ CopyKey
    \/ ensureCertificateDeployHook \/ MakeStateDir \/ OpenDatabase \/ Initialize \/ InitializeAdmin
    \/ writeServiceUnit \/ EnableService

UninstallStep ==
    \/ removeCertificateDeployHook \/ DisableService \/ RemoveUnit
    \/ PurgeState \/ PurgeConfig

DeployStep(d) ==
    \/ ReadCertificate(d) \/ ReadKey(d) \/ ReplaceCertificate(d) \/ ReplaceKey(d)
    \/ RestartService(d) \/ RestartFails(d)

Unforced ==
    /\ Unasked
    /\ \/ BeginInstall \/ ResetAdmin
       \/ \E all \in BOOLEAN : BeginUninstall(all)

(* What the operator does again: purge when install says so, install as    *)
(* long as the service does not run, reset-admin when no password was      *)
(* printed.                                                                *)
PurgeRefused == refused /\ BeginUninstall(TRUE) /\ UNCHANGED events
InstallAgain ==
    ~(service = "running" /\ unit = "whole") /\ ~refused /\ BeginInstall /\ UNCHANGED events
ResetMissing == service = "running" /\ admin = 0 /\ ResetAdmin /\ UNCHANGED events

(* The panel answers while the daemon runs on an initialised database.     *)
Equipped == \A b \in Runtime : runtime[b] = "sound"

Serving == service = "running" /\ db = "ready" /\ Equipped

PanelStep == Serving /\ PanelNext /\ UNCHANGED <<files, systemd, cmd, options, deploys>>

Next ==
    \/ InstallAgain \/ PurgeRefused \/ ResetMissing \/ Unforced \/ Renew
    \/ InstallStep \/ UninstallStep \/ Breaks
    \/ \E d \in Deployers : DeployByHand(d) \/ DeployStep(d) \/ DeployBreaks(d)
    \/ PanelStep

Spec == Init /\ [][Next]_vars

(* A command that runs goes on, and the operator repeats it until 5gws     *)
(* runs and he can log in.                                                 *)
Fairness ==
    /\ WF_vars(InstallStep \/ UninstallStep)
    /\ WF_vars(InstallAgain) /\ WF_vars(PurgeRefused) /\ WF_vars(ResetMissing)
    /\ \A d \in Deployers : WF_vars(DeployStep(d))

FairSpec == Spec /\ Fairness

-----------------------------------------------------------------------------
TypeOK ==
    /\ made \in Nat /\ admin \in 0..made /\ sessions \in Seq(0..made) /\ events \in 0..MaxEvents
    /\ runtime \in [Runtime -> {"missing", "sound", "damaged"}]
    /\ archive \in {"none", "sound", "damaged"} /\ hook \in BOOLEAN
    /\ live \in Nat /\ {cert, key} \subseteq Nat \cup {Cut}
    /\ pair \in {"whole", "install", "mixed"} \cup Deployers
    /\ db \in {"none", "bare", "empty", "ready"} /\ unit \in {"none", "cut", "whole"}
    /\ service \in {"stopped", "running", "orphaned"}
    /\ {existing, purge, refused} \subseteq BOOLEAN

(* Sessions that are accepted although their login compared a password     *)
(* that is no longer in force, and logins that are about to store one.     *)
Outdated == {s \in DOMAIN sessions : sessions[s] \notin {0, admin}}
Late == {h \in Handlers : calls[h].at = "store" /\ calls[h].typed # admin}

(* A change of the password, by the panel, install or reset-admin, ends    *)
(* every session; accepted after it under an old password are no more      *)
(* than the logins that had compared one and not stored their session yet, *)
(* whatever other changes, logouts and logins come in between.             *)
FewOutdated ==
    Cardinality(Outdated) + Cardinality(Late) <= Cardinality(Handlers)

(* However many logins are tried at once from an address, those that were  *)
(* let in before the lock are all that exceed the limit: the count starts  *)
(* again with each window and nothing is let in while the lock lasts.      *)
FailuresBounded ==
    \A a \in Addresses : logins[a].failures < LoginLimit + Cardinality(Handlers)

Started ==
    (EnableService /\ service = "stopped") \/ \E d \in Deployers : RestartService(d)

(* The service is started, by install or by a deployment, only on a host   *)
(* with an initialised database, sound binaries, a certificate and a key,  *)
(* whatever was cut off, repeated, uninstalled or purged before.  The two  *)
(* files are whole and of one issue if whoever wrote the certificate last  *)
(* has written its key, too, and nobody wrote or renewed in between; if    *)
(* not, install accepts them all the same, even a file half written.       *)
StartsComplete ==
    [][Started =>
          /\ db = "ready" /\ Equipped
          /\ cert # 0 /\ key # 0
          /\ pair = "whole" => cert = key /\ cert # Cut]_vars

(* A deployment that nothing disturbs and that reports success leaves the  *)
(* service running with the certificate it read and the key of the same    *)
(* issue, also when certbot renews while it reads them or an earlier       *)
(* deployment was cut off between the two renames.                         *)
DeployServes ==
    [][\A d \in Deployers : RestartService(d) /\ deploys[d].calm =>
          served' = <<deploys[d].cert, deploys[d].cert>>]_vars

(* An operator who repeats install, purges when install refuses the        *)
(* database and resets the password he has not seen, gets a running        *)
(* service and can log in; unless uninstall could not stop the service     *)
(* whose database it removed, which it reports.                            *)
InstallationFinishes ==
    []<>(\/ service = "running" /\ unit = "whole" /\ db = "ready" /\ admin # 0
         \/ service = "orphaned")

-----------------------------------------------------------------------------
(* Why the safety properties hold, see InstallationProofs.                 *)

Accounts ==
    /\ admin \in Nat /\ made \in Nat /\ sessions \in Seq(Nat)
    /\ FewOutdated

WithPair == {"hook", "directory", "open", "initialize", "administrator", "unit", "enable"}

WithRuntime == {"certificate", "copy certificate", "copy key"} \cup WithPair

Installing == Runtime \cup WithRuntime

Complete == db = "ready" /\ Equipped /\ cert # 0 /\ key # 0

(* How far install has come says what it has put in place; a unit exists   *)
(* only on a complete host, and purge removes it first.                    *)
Reached ==
    /\ db \in {"none", "bare", "empty", "ready"}
    /\ runtime \in [Runtime -> {"missing", "sound"}]
    /\ cmd = "sslocal" => runtime["smartdns"] = "sound"
    /\ cmd \in WithRuntime => Equipped
    /\ cmd \in {"copy certificate", "copy key"} => live # 0
    /\ cmd = "copy key" => cert # 0
    /\ cmd \in WithPair => cert # 0 /\ key # 0
    /\ cmd \in Installing /\ existing => db = "ready"
    /\ cmd \in {"administrator", "unit", "enable"} => db = "ready"
    /\ cmd \in {"purge state", "purge config"} => unit = "none"
    /\ unit # "none" => Complete

(* A deployment has read a certificate that was issued.                    *)
Deployment ==
    {NotDeploying} \cup
    [at : {"read", "read key", "certificate", "key", "restart"},
     cert : Nat, key : Nat, calm : BOOLEAN]

Deployments ==
    /\ live \in Nat
    /\ deploys \in [Deployers -> Deployment]
    /\ \A d \in Deployers :
          /\ deploys[d].at # "idle" => live # 0
          /\ deploys[d].at \in {"read key", "certificate", "key", "restart"} => deploys[d].cert # 0
          /\ deploys[d].at \in {"certificate", "key", "restart"} => deploys[d].key # 0

(* What a deployment is about to write is a pair.  While one is calm no    *)
(* command runs and no other deployment does, so the files are its own.    *)
CalmAndAlone(d) ==
    deploys[d].at # "idle" /\ deploys[d].calm =>
       /\ cmd = "idle"
       /\ \A x \in Deployers \ {d} : deploys[x].at = "idle"
       /\ deploys[d].at \in {"key", "restart"} => cert = deploys[d].cert
       /\ deploys[d].at = "restart" => key = deploys[d].key

Calm ==
    \A d \in Deployers :
       /\ deploys[d].at \in {"certificate", "key", "restart"} => deploys[d].key = deploys[d].cert
       /\ CalmAndAlone(d)

(* The certificate that waits for its key is the one its writer goes on    *)
(* with, so the key that follows belongs to it.                            *)
Pair ==
    /\ pair \in {"whole", "install", "mixed"} \cup Deployers
    /\ pair = "whole" => cert = key /\ cert # Cut
    /\ pair = "install" /\ cmd = "copy key" => cert = live
    /\ \A d \in Deployers : pair = d /\ deploys[d].at = "key" => cert = deploys[d].cert

(* What a request may have read, and the logins let in that may still be   *)
(* counted as failures of an address.                                      *)
Call ==
    {Idle}
    \cup [at : {"login", "store", "refuse", "welcome"}, from : Addresses, typed : Nat]
    \cup [at : {"logout"}, session : Nat]
    \cup [at : {"compare", "change"}, typed : Nat]

Attempts(a) ==
    {h \in Handlers : calls[h].at \in {"login", "store", "refuse"} /\ calls[h].from = a}

(* Within a window each failure takes one of the logins let in; none is    *)
(* let in after the limit, and a window begins with a count of nothing.    *)
Counted(a) ==
    LET most == LoginLimit + Cardinality(Handlers)
    IN  /\ logins[a].failures < most
        /\ logins[a].window = "open" => logins[a].failures + Cardinality(Attempts(a)) < most
        /\ logins[a].window = "open" /\ ~logins[a].locked => logins[a].failures < LoginLimit

Throttle ==
    /\ logins \in [Addresses -> [failures : Nat, window : {"none", "open", "over"},
                                 locked : BOOLEAN]]
    /\ calls \in [Handlers -> Call]
    /\ \A a \in Addresses : Counted(a)

HostInv == Accounts /\ Reached /\ Deployments /\ Calm /\ Pair /\ Throttle

=============================================================================
