-------------------------- MODULE InstallationProofs --------------------------
(***************************************************************************)
(* However install, uninstall, reset-admin, deployments and renewals       *)
(* overlap and break off, and whatever requests and passwords there are:   *)
(* few sessions outlive a change of the password, failed logins stay       *)
(* counted, the service starts only on a complete host, and a deployment   *)
(* that nothing disturbs serves what it read.  HostInv is inductive.       *)
(***************************************************************************)
EXTENDS Installation, FiniteSetTheorems, TLAPS

(* A session that ends leaves the others as they are.                      *)
LEMMA ZeroedIsSequence ==
    ASSUME NEW s \in Seq(Nat), NEW x
    PROVE  /\ [s EXCEPT ![x] = 0] \in Seq(Nat)
           /\ \A i \in DOMAIN s : [s EXCEPT ![x] = 0][i] \in {0, s[i]}
           /\ DOMAIN [s EXCEPT ![x] = 0] = DOMAIN s
           /\ [i \in DOMAIN s |-> 0] \in Seq(Nat)
<1>1. PICK n \in Nat : s \in [1 .. n -> Nat]
    OBVIOUS
<1>2. [s EXCEPT ![x] = 0] \in [1 .. n -> Nat] /\ [i \in DOMAIN s |-> 0] \in [1 .. n -> Nat]
    BY <1>1
<1> QED BY <1>1, <1>2

-----------------------------------------------------------------------------
(* What a deployment has read is never missing, whatever is issued or      *)
(* begun while it runs.                                                    *)
LEMMA DisturbedKeeps ==
    ASSUME Deployments
    PROVE  /\ Disturbed \in [Deployers -> Deployment]
           /\ \A d \in Deployers :
                 /\ Disturbed[d].at = deploys[d].at
                 /\ deploys[d].at # "idle" =>
                       Disturbed[d].cert = deploys[d].cert /\ Disturbed[d].key = deploys[d].key
<1>1. ASSUME NEW d \in Deployers, deploys[d].at = "idle"
      PROVE  Disturbed[d] = deploys[d]
    BY <1>1 DEF Disturbed
<1>2. ASSUME NEW d \in Deployers, deploys[d].at # "idle"
      PROVE  /\ Disturbed[d] \in Deployment /\ Disturbed[d].at = deploys[d].at
             /\ Disturbed[d].cert = deploys[d].cert /\ Disturbed[d].key = deploys[d].key
    BY <1>2, ZenonT(60) DEF Disturbed, Deployments, Deployment, NotDeploying
<1> QED BY <1>1, <1>2 DEF Disturbed, Deployments

(* A deployment that runs has read something.                              *)
LEMMA Running ==
    ASSUME Deployments, NEW d \in Deployers, deploys[d].at # "idle"
    PROVE  deploys[d] \in [at : {"read", "read key", "certificate", "key", "restart"},
                          cert : Nat, key : Nat, calm : BOOLEAN]
<1>1. deploys[d] \in Deployment
    BY DEF Deployments
<1>2. NotDeploying.at = "idle"
    BY DEF NotDeploying
<1>3. deploys[d] # NotDeploying
    BY <1>2
<1> QED BY <1>1, <1>3 DEF Deployment

(* One deployment goes on and the others stay where they are.              *)
LEMMA OneDeploymentKeeps ==
    ASSUME Deployments, live' = live, NEW d \in Deployers, NEW to \in Deployment,
           deploys' = [deploys EXCEPT ![d] = to],
           to.at # "idle" => live # 0,
           to.at \in {"read key", "certificate", "key", "restart"} => to.cert # 0,
           to.at \in {"certificate", "key", "restart"} => to.key # 0
    PROVE  Deployments'
<1>1. deploys' \in [Deployers -> Deployment]
    BY DEF Deployments
<1>2. deploys'[d] = to /\ \A x \in Deployers \ {d} : deploys'[x] = deploys[x]
    BY DEF Deployments
<1> QED BY <1>1, <1>2 DEF Deployments

LEMMA DeploymentsInv ==
    ASSUME Deployments, [Next]_vars
    PROVE  Deployments'
<1>1. CASE UNCHANGED <<live, deploys>>
    BY <1>1 DEF Deployments
<1>2. CASE InstallStep
    <2>1. CASE ensureCertificate
        <3>1. deploys' = deploys /\ (live' = live \/ (live = 0 /\ live' = 1))
            BY <2>1 DEF ensureCertificate
        <3>2. live \in Nat
            BY DEF Deployments
        <3>3. live' \in Nat /\ (live # 0 => live' # 0)
            BY <3>1, <3>2
        <3> QED BY <3>1, <3>3 DEF Deployments
    <2>2. CASE ~ensureCertificate
        BY <1>1, <1>2, <2>2 DEF InstallStep, EnsureRuntime, Download, InstallArchive,
           CopyCertificate, CopyKey, ensureCertificateDeployHook, MakeStateDir, OpenDatabase,
           Initialize, InitializeAdmin, writeServiceUnit, EnableService, files
    <2> QED BY <2>1, <2>2
<1>3. CASE UninstallStep
    BY <1>1, <1>3 DEF UninstallStep, removeCertificateDeployHook, DisableService, RemoveUnit,
       PurgeState, PurgeConfig, files
<1>4. CASE BeginInstall \/ \E all \in BOOLEAN : BeginUninstall(all)
    <2>1. live' = live /\ (deploys' = Disturbed \/ deploys' = deploys)
        BY <1>4 DEF BeginInstall, BeginUninstall, files
    <2> QED BY <1>1, <2>1, DisturbedKeeps DEF Deployments
<1>5. ASSUME NEW d \in Deployers, live # 0, live' \in {live, live + 1}, BeginDeploy(d)
      PROVE  Deployments'
    <2>1. live \in Nat
        BY DEF Deployments
    <2>2. live' \in Nat /\ live' # 0
        BY <1>5, <2>1
    <2>3. CASE deploys' = deploys
        BY <2>3, <2>2 DEF Deployments
    <2>4. CASE deploys' = [Disturbed EXCEPT ![d] =
                              [at |-> "read", cert |-> 0, key |-> 0, calm |-> Alone]]
        <3>1. Alone \in BOOLEAN
            BY DEF Alone
        <3>2. [at |-> "read", cert |-> 0, key |-> 0, calm |-> Alone] \in Deployment
            BY <3>1 DEF Deployment
        <3>3. /\ deploys' \in [Deployers -> Deployment]
              /\ deploys'[d].at = "read"
              /\ \A x \in Deployers \ {d} : deploys'[x] = Disturbed[x]
            BY <2>4, <3>2, DisturbedKeeps
        <3> QED BY <3>3, <2>2, DisturbedKeeps, ZenonT(60) DEF Deployments
    <2> QED BY <1>5, <2>3, <2>4 DEF BeginDeploy
<1>6. CASE Renew
    <2>1. live # 0 /\ live' = live + 1
        BY <1>6 DEF Renew
    <2>2. live \in Nat
        BY DEF Deployments
    <2>3. live' \in Nat /\ live' # 0
        BY <2>2, <2>1
    <2>4. CASE deploys' = deploys
        BY <2>4, <2>3 DEF Deployments
    <2> QED BY <1>5, <1>6, <2>1, <2>4, InstallationAssumption DEF Renew
<1>7. ASSUME NEW d \in Deployers, DeployByHand(d) PROVE Deployments'
    BY <1>5, <1>7 DEF DeployByHand
<1>8. ASSUME NEW d \in Deployers, DeployStep(d) \/ DeployBreaks(d) PROVE Deployments'
    <2>1. ASSUME deploys[d].at # "idle"
          PROVE  deploys[d] \in [at : {"read", "read key", "certificate", "key", "restart"},
                                 cert : Nat, key : Nat, calm : BOOLEAN]
        BY <2>1, Running
    <2>2. ASSUME deploys' = [deploys EXCEPT ![d] = NotDeploying], live' = live
          PROVE  Deployments'
        BY <2>2, OneDeploymentKeeps DEF Deployment, NotDeploying
    <2>3. CASE ReadCertificate(d)
        <3> DEFINE to == [deploys[d] EXCEPT !.at = "read key", !.cert = live]
        <3>1. to \in Deployment /\ to.at = "read key" /\ to.cert = live /\ live # 0
            BY <2>1, <2>3 DEF ReadCertificate, Deployments, Deployment
        <3>2. deploys' = [deploys EXCEPT ![d] = to] /\ live' = live
            BY <2>3 DEF ReadCertificate, files
        <3> QED BY <3>1, <3>2, OneDeploymentKeeps
    <2>4. CASE ReadKey(d)
        <3> DEFINE to == [deploys[d] EXCEPT !.at = "certificate", !.key = live]
        <3>1. /\ to \in Deployment /\ to.at = "certificate" /\ to.key = live /\ live # 0
              /\ to.cert = deploys[d].cert /\ deploys[d].cert # 0
            BY <2>1, <2>4 DEF ReadKey, Deployments, Deployment
        <3>2. /\ \/ deploys' = [deploys EXCEPT ![d] = to]
                 \/ deploys' = [deploys EXCEPT ![d] = NotDeploying]
              /\ live' = live
            BY <2>4 DEF ReadKey, files
        <3> QED BY <3>1, <3>2, <2>2, OneDeploymentKeeps
    <2>5. CASE ReplaceCertificate(d)
        <3> DEFINE to == [deploys[d] EXCEPT !.at = "key"]
        <3>1. /\ to \in Deployment /\ to.at = "key" /\ live # 0
              /\ to.cert = deploys[d].cert /\ to.key = deploys[d].key
              /\ deploys[d].cert # 0 /\ deploys[d].key # 0
            BY <2>1, <2>5 DEF ReplaceCertificate, Deployments, Deployment
        <3>2. deploys' = [deploys EXCEPT ![d] = to] /\ live' = live
            BY <2>5 DEF ReplaceCertificate
        <3> QED BY <3>1, <3>2, OneDeploymentKeeps
    <2>6. CASE ReplaceKey(d)
        <3> DEFINE to == [deploys[d] EXCEPT !.at = "restart"]
        <3>1. /\ to \in Deployment /\ to.at = "restart" /\ live # 0
              /\ to.cert = deploys[d].cert /\ to.key = deploys[d].key
              /\ deploys[d].cert # 0 /\ deploys[d].key # 0
            BY <2>1, <2>6 DEF ReplaceKey, Deployments, Deployment
        <3>2. deploys' = [deploys EXCEPT ![d] = to] /\ live' = live
            BY <2>6 DEF ReplaceKey
        <3> QED BY <3>1, <3>2, OneDeploymentKeeps
    <2>7. CASE RestartService(d) \/ RestartFails(d) \/ DeployBreaks(d)
        BY <2>7, <2>2 DEF RestartService, RestartFails, DeployBreaks, files
    <2> QED BY <1>8, <2>3, <2>4, <2>5, <2>6, <2>7 DEF DeployStep
<1>9. CASE ResetAdmin \/ Breaks \/ PanelStep \/ UNCHANGED vars
    BY <1>1, <1>9 DEF ResetAdmin, Breaks, PanelStep, vars, files
<1> QED
    BY <1>2, <1>3, <1>4, <1>6, <1>7, <1>8, <1>9
       DEF Next, InstallAgain, PurgeRefused, ResetMissing, Unforced

-----------------------------------------------------------------------------
(* No certificate that was issued or cut off is the absent one, and none   *)
(* that was issued is cut off.                                             *)
LEMMA IssuesPresent ==
    /\ Cut # 0 /\ 1 # 0
    /\ \A n \in Nat : n + 1 # 0 /\ n # Cut
BY DEF Cut

(* install, step by step.                                                  *)
LEMMA InstallReaches ==
    ASSUME Reached, InstallStep
    PROVE  Reached'
<1> USE DEF Reached, Complete, Equipped, Installing, WithRuntime, WithPair, Runtime, Goto
<1>1. CASE EnsureRuntime
    BY <1>1 DEF EnsureRuntime, AfterBinary, files, binaries, written, options
<1>2. CASE Download
    BY <1>2 DEF Download, written, options
<1>3. CASE InstallArchive
    BY <1>3 DEF InstallArchive, AfterBinary, written, options
<1>4. CASE ensureCertificate
    <2>1. /\ UNCHANGED <<runtime, cert, key, db, unit, existing>>
          /\ cmd = "certificate"
          /\ \/ cmd' = "hook" /\ live' = live /\ cert # 0 /\ key # 0
             \/ cmd' = "copy certificate" /\ live' # 0
        <3>1. CASE live = 0
            BY <1>4, <3>1, IssuesPresent DEF ensureCertificate, binaries, written, options
        <3>2. CASE live # 0
            BY <1>4, <3>2 DEF ensureCertificate, binaries, written, options
        <3> QED BY <3>1, <3>2
    <2> QED BY <2>1
<1>5. CASE CopyCertificate
    BY <1>5 DEF CopyCertificate, binaries, written, options
<1>6. CASE CopyKey
    BY <1>6 DEF CopyKey, binaries, written, options
<1>7. CASE ensureCertificateDeployHook
    BY <1>7 DEF ensureCertificateDeployHook, binaries, written, options
<1>8. CASE MakeStateDir
    BY <1>8 DEF MakeStateDir, binaries, written, options
<1>9. CASE OpenDatabase
    BY <1>9 DEF OpenDatabase, Opened, binaries, written, options
<1>10. CASE Initialize
    BY <1>10 DEF Initialize, binaries, written, options
<1>11. CASE InitializeAdmin
    BY <1>11 DEF InitializeAdmin, files, binaries, written, options
<1>12. CASE writeServiceUnit
    BY <1>12 DEF writeServiceUnit, binaries, written, options
<1>13. CASE EnableService
    BY <1>13 DEF EnableService, files, binaries, written, options
<1> QED
    BY <1>1, <1>2, <1>3, <1>4, <1>5, <1>6, <1>7, <1>8, <1>9, <1>10, <1>11, <1>12, <1>13
       DEF InstallStep

(* uninstall, reset-admin, and a command that begins or breaks off.        *)
LEMMA CommandReaches ==
    ASSUME Reached,
           \/ UninstallStep \/ ResetAdmin \/ BeginInstall \/ Breaks
           \/ \E all \in BOOLEAN : BeginUninstall(all)
    PROVE  Reached'
<1> USE DEF Reached, Complete, Equipped, Installing, WithRuntime, WithPair, Runtime, Goto
<1>1. CASE removeCertificateDeployHook
    BY <1>1 DEF removeCertificateDeployHook, binaries, written, options
<1>2. CASE DisableService
    BY <1>2 DEF DisableService, files, binaries, written, options
<1>3. CASE RemoveUnit
    BY <1>3 DEF RemoveUnit, binaries, written, options
<1>4. CASE PurgeState
    BY <1>4 DEF PurgeState, binaries, written, options
<1>5. CASE PurgeConfig
    BY <1>5 DEF PurgeConfig, binaries, written, options
<1>6. CASE ResetAdmin
    BY <1>6 DEF ResetAdmin, Opened, binaries, written, options
<1>7. CASE BeginInstall
    <2>1. /\ UNCHANGED <<runtime, live, cert, key, db, unit>>
          /\ cmd = "idle"
          /\ \/ UNCHANGED <<cmd, existing>>
             \/ cmd' = "smartdns" /\ existing' = (loadExistingBundle = "bundle")
        BY <1>7 DEF BeginInstall, files, binaries, written
    <2>2. loadExistingBundle = "bundle" /\ db \in {"none", "bare", "empty", "ready"}
              => db = "ready"
        BY DEF loadExistingBundle
    <2> QED BY <2>1, <2>2
<1>8. CASE Breaks
    <2>1. /\ UNCHANGED <<runtime, live, db, existing>>
          /\ cmd' = "idle"
          /\ unit' # "none" => unit # "none" \/ cmd = "unit"
          /\ cert # 0 => cert' # 0
          /\ key # 0 => key' # 0
        <3>1. cert' \in {cert, Cut} /\ key' \in {key, Cut}
            BY <1>8 DEF Breaks, written
        <3>2. unit' = unit \/ cmd = "unit"
            BY <1>8 DEF Breaks
        <3>3. UNCHANGED <<runtime, live, db, existing>> /\ cmd' = "idle"
            BY <1>8 DEF Breaks, options
        <3> QED BY <3>1, <3>2, <3>3, IssuesPresent
    <2> QED BY <2>1
<1>9. CASE \E all \in BOOLEAN : BeginUninstall(all)
    BY <1>9 DEF BeginUninstall, files, binaries, written
<1> QED
    BY <1>1, <1>2, <1>3, <1>4, <1>5, <1>6, <1>7, <1>8, <1>9 DEF UninstallStep

(* What happens beside a command.                                          *)
LEMMA OthersReach ==
    ASSUME Reached, Deployments,
           \/ Renew \/ PanelStep \/ UNCHANGED vars
           \/ \E d \in Deployers : DeployByHand(d) \/ DeployStep(d) \/ DeployBreaks(d)
    PROVE  Reached'
<1> USE DEF Reached, Complete, Equipped, Installing, WithRuntime, WithPair, Runtime
<1>1. CASE UNCHANGED <<runtime, live, cert, key, db, unit, cmd, existing>>
    BY <1>1
<1>2. CASE PanelStep \/ UNCHANGED vars
    BY <1>1, <1>2 DEF PanelStep, vars, files, binaries, written, options
<1>3. CASE Renew
    <2>1. /\ UNCHANGED <<runtime, cert, key, unit, cmd, existing>>
          /\ live' = live + 1 /\ live' # 0
        <3>1. UNCHANGED <<runtime, cert, key, unit, cmd, existing>> /\ live' = live + 1
            BY <1>3 DEF Renew, binaries, written, options
        <3>2. live \in Nat
            BY DEF Deployments
        <3> QED BY <3>1, <3>2, IssuesPresent
    <2>2. db' \in {db, "empty"} /\ (db = "ready" => db' = "ready")
        BY <1>3 DEF Renew, BeginDeploy, Opened
    <2> QED BY <2>1, <2>2
<1>4. ASSUME NEW d \in Deployers, DeployByHand(d) PROVE Reached'
    BY <1>4 DEF DeployByHand, BeginDeploy, Opened, binaries, written, options
<1>5. ASSUME NEW d \in Deployers, ReplaceCertificate(d) \/ ReplaceKey(d) PROVE Reached'
    <2>1. CASE ReplaceCertificate(d)
        BY <2>1 DEF ReplaceCertificate, Deployments, binaries, written, options
    <2>2. CASE ReplaceKey(d)
        BY <2>2 DEF ReplaceKey, Deployments, binaries, written, options
    <2> QED BY <1>5, <2>1, <2>2
<1>6. ASSUME NEW d \in Deployers,
             \/ ReadCertificate(d) \/ ReadKey(d) \/ RestartService(d) \/ RestartFails(d)
             \/ DeployBreaks(d)
      PROVE  Reached'
    BY <1>1, <1>6 DEF ReadCertificate, ReadKey, RestartService, RestartFails, DeployBreaks,
       files, binaries, written, options
<1> QED BY <1>2, <1>3, <1>4, <1>5, <1>6 DEF DeployStep

-----------------------------------------------------------------------------
(* A calm deployment is alone, and the files it has written are its own.   *)

(* While a command runs no deployment is calm.                             *)
LEMMA CommandKeepsCalm ==
    ASSUME Calm, deploys' = deploys, cmd # "idle"
    PROVE  Calm'
BY DEF Calm, CalmAndAlone

LEMMA DisturbedIsNotCalm ==
    ASSUME Calm, Deployments
    PROVE  \A d \in Deployers :
              /\ Disturbed[d].at # "idle" => ~Disturbed[d].calm
              /\ Disturbed[d].at \in {"certificate", "key", "restart"} =>
                    Disturbed[d].key = Disturbed[d].cert
<1> SUFFICES ASSUME NEW d \in Deployers
             PROVE  /\ Disturbed[d].at # "idle" => ~Disturbed[d].calm
                    /\ Disturbed[d].at \in {"certificate", "key", "restart"} =>
                          Disturbed[d].key = Disturbed[d].cert
    OBVIOUS
<1>1. CASE deploys[d].at = "idle"
    BY <1>1 DEF Disturbed
<1>2. CASE deploys[d].at # "idle"
    <2>1. /\ deploys[d] \in [at : {"read", "read key", "certificate", "key", "restart"},
                             cert : Nat, key : Nat, calm : BOOLEAN]
          /\ Disturbed[d] = [deploys[d] EXCEPT !.calm = FALSE]
        BY <1>2, Running DEF Disturbed
    <2> QED BY <2>1 DEF Calm
<1> QED BY <1>1, <1>2

(* A deployment begins, calm if there is nothing else.                     *)
LEMMA BeginDeployKeepsCalm ==
    ASSUME Calm, Deployments, NEW d \in Deployers, BeginDeploy(d), UNCHANGED <<cmd, cert, key>>
    PROVE  Calm'
<1>1. CASE deploys' = deploys
    BY <1>1 DEF Calm, CalmAndAlone
<1>2. CASE deploys' = [Disturbed EXCEPT ![d] =
                          [at |-> "read", cert |-> 0, key |-> 0, calm |-> Alone]]
    <2>1. /\ deploys'[d].at = "read" /\ (deploys'[d].calm <=> Alone)
          /\ \A x \in Deployers \ {d} : deploys'[x] = Disturbed[x]
        BY <1>2, DisturbedKeeps
    <2>2. CalmAndAlone(d)'
        BY <2>1, DisturbedKeeps DEF CalmAndAlone, Alone
    <2>3. ASSUME NEW x \in Deployers \ {d}
          PROVE  /\ deploys'[x].at # "idle" => ~deploys'[x].calm
                 /\ deploys'[x].at \in {"certificate", "key", "restart"} =>
                       deploys'[x].key = deploys'[x].cert
        BY <2>1, DisturbedIsNotCalm
    <2> QED BY <2>1, <2>2, <2>3 DEF Calm, CalmAndAlone
<1> QED BY <1>1, <1>2 DEF BeginDeploy

(* One deployment goes on; if it is not the calm one, none is.             *)
LEMMA OneDeploymentKeepsCalm ==
    ASSUME Calm, Deployments, NEW d \in Deployers, deploys[d].at # "idle", cmd' = cmd,
           NEW to \in Deployment, deploys' = [deploys EXCEPT ![d] = to],
           to.at # "idle" => to.calm = deploys[d].calm,
           to.at \in {"certificate", "key", "restart"} => to.key = to.cert,
           to.at \in {"key", "restart"} /\ to.calm => cert' = to.cert,
           to.at = "restart" /\ to.calm => key' = to.key
    PROVE  Calm'
<1>1. deploys'[d] = to /\ \A x \in Deployers \ {d} : deploys'[x] = deploys[x]
    BY DEF Deployments
<1>2. ASSUME NEW x \in Deployers \ {d}, deploys[x].at # "idle" PROVE ~deploys[x].calm
    BY <1>2 DEF Calm, CalmAndAlone
<1> QED BY <1>1, <1>2 DEF Calm, CalmAndAlone

LEMMA DeployKeepsCalm ==
    ASSUME Calm, Deployments, NEW d \in Deployers, DeployStep(d) \/ DeployBreaks(d)
    PROVE  Calm'
<1>1. /\ deploys[d].at # "idle"
      /\ deploys[d] \in [at : {"read", "read key", "certificate", "key", "restart"},
                         cert : Nat, key : Nat, calm : BOOLEAN]
    <2>1. deploys[d].at # "idle"
        BY DEF DeployStep, DeployBreaks, ReadCertificate, ReadKey, ReplaceCertificate, ReplaceKey,
           RestartService, RestartFails
    <2> QED BY <2>1, Running
<1>2. live \in Nat
    BY DEF Deployments
<1>3. ASSUME deploys' = [deploys EXCEPT ![d] = NotDeploying], cmd' = cmd
      PROVE  Calm'
    BY <1>1, <1>3, OneDeploymentKeepsCalm DEF Deployment, NotDeploying
<1>4. CASE ReadCertificate(d)
    <2> DEFINE to == [deploys[d] EXCEPT !.at = "read key", !.cert = live]
    <2>1. to \in Deployment /\ to.at = "read key" /\ to.calm = deploys[d].calm
        BY <1>1, <1>2 DEF Deployment
    <2>2. deploys' = [deploys EXCEPT ![d] = to] /\ cmd' = cmd
        BY <1>4 DEF ReadCertificate
    <2> QED BY <1>1, <2>1, <2>2, OneDeploymentKeepsCalm
<1>5. CASE ReadKey(d)
    <2> DEFINE to == [deploys[d] EXCEPT !.at = "certificate", !.key = live]
    <2>1. /\ to \in Deployment /\ to.at = "certificate" /\ to.calm = deploys[d].calm
          /\ to.key = live /\ to.cert = deploys[d].cert
        BY <1>1, <1>2 DEF Deployment
    <2>2. /\ \/ deploys' = [deploys EXCEPT ![d] = to] /\ live = deploys[d].cert
             \/ deploys' = [deploys EXCEPT ![d] = NotDeploying]
          /\ cmd' = cmd
        BY <1>5 DEF ReadKey
    <2> QED BY <1>1, <1>3, <2>1, <2>2, OneDeploymentKeepsCalm
<1>6. CASE ReplaceCertificate(d)
    <2> DEFINE to == [deploys[d] EXCEPT !.at = "key"]
    <2>1. /\ to \in Deployment /\ to.at = "key" /\ to.calm = deploys[d].calm
          /\ to.key = deploys[d].key /\ to.cert = deploys[d].cert
        BY <1>1 DEF Deployment
    <2>2. /\ deploys' = [deploys EXCEPT ![d] = to] /\ cmd' = cmd /\ cert' = deploys[d].cert
          /\ deploys[d].at = "certificate"
        BY <1>6 DEF ReplaceCertificate
    <2> QED BY <1>1, <2>1, <2>2, OneDeploymentKeepsCalm DEF Calm
<1>7. CASE ReplaceKey(d)
    <2> DEFINE to == [deploys[d] EXCEPT !.at = "restart"]
    <2>1. /\ to \in Deployment /\ to.at = "restart" /\ to.calm = deploys[d].calm
          /\ to.key = deploys[d].key /\ to.cert = deploys[d].cert
        BY <1>1 DEF Deployment
    <2>2. /\ deploys' = [deploys EXCEPT ![d] = to] /\ cmd' = cmd
          /\ cert' = cert /\ key' = deploys[d].key
          /\ deploys[d].at = "key"
        BY <1>7 DEF ReplaceKey
    <2>3. deploys[d].key = deploys[d].cert /\ (deploys[d].calm => cert = deploys[d].cert)
        BY <2>2 DEF Calm, CalmAndAlone
    <2> QED BY <1>1, <2>1, <2>2, <2>3, OneDeploymentKeepsCalm
<1>8. CASE RestartService(d) \/ RestartFails(d) \/ DeployBreaks(d)
    BY <1>3, <1>8 DEF RestartService, RestartFails, DeployBreaks
<1> QED BY <1>4, <1>5, <1>6, <1>7, <1>8 DEF DeployStep

LEMMA CalmInv ==
    ASSUME Calm, Deployments, [Next]_vars
    PROVE  Calm'
<1>1. CASE UNCHANGED <<deploys, cmd, cert, key>>
    BY <1>1 DEF Calm, CalmAndAlone
<1>2. CASE InstallStep
    BY <1>2, CommandKeepsCalm DEF InstallStep, Runtime, EnsureRuntime, Download, InstallArchive,
       ensureCertificate, CopyCertificate, CopyKey, ensureCertificateDeployHook, MakeStateDir,
       OpenDatabase, Initialize, InitializeAdmin, writeServiceUnit, EnableService
<1>3. CASE UninstallStep
    BY <1>3, CommandKeepsCalm DEF UninstallStep, removeCertificateDeployHook, DisableService,
       RemoveUnit, PurgeState, PurgeConfig
<1>4. CASE Breaks
    BY <1>4, CommandKeepsCalm DEF Breaks
<1>5. CASE BeginInstall \/ \E all \in BOOLEAN : BeginUninstall(all)
    <2>1. CASE deploys' = Disturbed
        BY <2>1, DisturbedIsNotCalm DEF Calm, CalmAndAlone
    <2>2. deploys' = Disturbed \/ UNCHANGED <<deploys, cmd, cert, key>>
        BY <1>5 DEF BeginInstall, BeginUninstall, files, written
    <2> QED BY <1>1, <2>1, <2>2
<1>6. CASE Renew
    BY <1>1, <1>6, BeginDeployKeepsCalm, InstallationAssumption DEF Renew, written
<1>7. ASSUME NEW d \in Deployers, DeployByHand(d) PROVE Calm'
    BY <1>7, BeginDeployKeepsCalm DEF DeployByHand, written
<1>8. ASSUME NEW d \in Deployers, DeployStep(d) \/ DeployBreaks(d) PROVE Calm'
    BY <1>8, DeployKeepsCalm
<1>9. CASE ResetAdmin \/ PanelStep \/ UNCHANGED vars
    BY <1>1, <1>9 DEF ResetAdmin, PanelStep, vars, files, written
<1> QED
    BY <1>2, <1>3, <1>4, <1>5, <1>6, <1>7, <1>8, <1>9
       DEF Next, InstallAgain, PurgeRefused, ResetMissing, Unforced

-----------------------------------------------------------------------------
(* What the certificate was written with says whose key belongs to it.     *)

(* The files stay, and no deployment comes to its key.                     *)
LEMMA FilesKeepPair ==
    ASSUME Pair, UNCHANGED written,
           cmd' = "copy key" => cmd = "copy key" /\ live' = live,
           \A d \in Deployers :
              deploys'[d].at = "key" => deploys[d].at = "key" /\ deploys'[d].cert = deploys[d].cert
    PROVE  Pair'
BY DEF Pair, written

(* A command writes, beside whatever deployments there are.                *)
LEMMA CommandKeepsPair ==
    ASSUME Pair, Deployments, deploys' = deploys,
           \/ CopyCertificate \/ CopyKey \/ PurgeConfig \/ Breaks
    PROVE  Pair'
<1>1. live \in Nat /\ live # Cut
    BY IssuesPresent DEF Deployments
<1>2. CASE CopyCertificate
    <2>1. cert' = live /\ live' = live /\ pair' = "install"
        BY <1>2 DEF CopyCertificate, CertificateBy
    <2> QED BY <2>1, InstallationAssumption DEF Pair
<1>3. CASE CopyKey
    <2>1. /\ cmd = "copy key" /\ cmd' = "hook" /\ cert' = cert /\ key' = live
          /\ \/ pair = "install" /\ pair' = "whole"
             \/ pair = "whole" /\ pair' = "mixed"
             \/ pair \notin {"install", "whole"} /\ pair' = pair
        BY <1>3 DEF CopyKey, KeyBy, Overwritten, Goto
    <2> QED BY <1>1, <2>1, InstallationAssumption DEF Pair
<1>4. CASE PurgeConfig
    <2>1. cert' = 0 /\ key' = 0 /\ pair' = "whole" /\ 0 # Cut
        BY <1>4, IssuesPresent DEF PurgeConfig
    <2> QED BY <2>1, InstallationAssumption DEF Pair
<1>5. CASE Breaks
    <2>1. cmd' = "idle"
        BY <1>5 DEF Breaks, Goto
    <2>2. CASE UNCHANGED written
        BY <2>1, <2>2, FilesKeepPair
    <2>3. CASE pair' = "install"
        BY <2>1, <2>3, InstallationAssumption DEF Pair
    <2>4. CASE cert' = cert /\ pair' = Overwritten
        BY <2>1, <2>4, InstallationAssumption DEF Pair, Overwritten
    <2> QED BY <1>5, <2>2, <2>3, <2>4 DEF Breaks, CertificateBy
<1> QED BY <1>2, <1>3, <1>4, <1>5

(* A certificate is issued while install copies, and a deployment begins.  *)
LEMMA BeginKeepsPair ==
    ASSUME Deployments, NEW d \in Deployers, BeginDeploy(d)
    PROVE  \A x \in Deployers :
              deploys'[x].at = "key" => deploys[x].at = "key" /\ deploys'[x].cert = deploys[x].cert
<1>1. CASE deploys' = deploys
    BY <1>1
<1>2. CASE deploys' = [Disturbed EXCEPT ![d] =
                          [at |-> "read", cert |-> 0, key |-> 0, calm |-> Alone]]
    <2>1. /\ deploys'[d].at = "read"
          /\ \A x \in Deployers \ {d} : deploys'[x] = Disturbed[x]
        BY <1>2, DisturbedKeeps
    <2> QED BY <2>1, DisturbedKeeps
<1> QED BY <1>1, <1>2 DEF BeginDeploy

LEMMA RenewalKeepsPair ==
    ASSUME Pair, Deployments, Renew
    PROVE  Pair'
<1>1. /\ UNCHANGED <<cert, key, cmd>>
      /\ \/ cmd = "copy key" /\ pair = "install" /\ pair' = "mixed"
         \/ ~(cmd = "copy key" /\ pair = "install") /\ pair' = pair
    BY DEF Renew
<1>2. \A x \in Deployers :
          deploys'[x].at = "key" => deploys[x].at = "key" /\ deploys'[x].cert = deploys[x].cert
    BY BeginKeepsPair, InstallationAssumption DEF Renew
<1> QED BY <1>1, <1>2, InstallationAssumption DEF Pair

(* A deployment goes on: its own key follows its certificate, or another's *)
(* does.                                                                   *)
LEMMA DeployKeepsPair ==
    ASSUME Pair, Calm, Deployments, NEW d \in Deployers, DeployStep(d) \/ DeployBreaks(d)
    PROVE  Pair'
<1>1. /\ deploys[d].at # "idle"
      /\ deploys[d] \in [at : {"read", "read key", "certificate", "key", "restart"},
                         cert : Nat, key : Nat, calm : BOOLEAN]
    <2>1. deploys[d].at # "idle"
        BY DEF DeployStep, DeployBreaks, ReadCertificate, ReadKey, ReplaceCertificate, ReplaceKey,
           RestartService, RestartFails
    <2> QED BY <2>1, Running
<1>2. ASSUME NEW to, deploys' = [deploys EXCEPT ![d] = to]
      PROVE  deploys'[d] = to /\ \A x \in Deployers \ {d} : deploys'[x] = deploys[x]
    BY <1>2 DEF Deployments
<1>3. ASSUME NEW to, deploys' = [deploys EXCEPT ![d] = to], to.at # "key",
             UNCHANGED <<written, cmd, live>>
      PROVE  Pair'
    BY <1>2, <1>3, FilesKeepPair
<1>4. CASE ReadCertificate(d) \/ ReadKey(d)
    <2>1. /\ [deploys[d] EXCEPT !.at = "read key", !.cert = live].at = "read key"
          /\ [deploys[d] EXCEPT !.at = "certificate", !.key = live].at = "certificate"
          /\ NotDeploying.at = "idle"
        BY <1>1 DEF NotDeploying
    <2>2. UNCHANGED <<written, cmd, live>>
        BY <1>4 DEF ReadCertificate, ReadKey, files
    <2>3. CASE ReadCertificate(d)
        BY <1>3, <2>1, <2>2, <2>3 DEF ReadCertificate
    <2>4. CASE ReadKey(d)
        BY <1>3, <2>1, <2>2, <2>4 DEF ReadKey
    <2> QED BY <1>4, <2>3, <2>4
<1>5. CASE ReplaceCertificate(d)
    <2> DEFINE to == [deploys[d] EXCEPT !.at = "key"]
    <2>1. to.cert = deploys[d].cert
        BY <1>1
    <2>2. /\ deploys' = [deploys EXCEPT ![d] = to] /\ cert' = deploys[d].cert /\ pair' = d
        BY <1>5 DEF ReplaceCertificate, CertificateBy
    <2>3. deploys'[d] = to
        BY <1>2, <2>2
    <2> HIDE DEF to
    <2> QED BY <2>1, <2>2, <2>3, InstallationAssumption DEF Pair
<1>6. CASE ReplaceKey(d)
    <2> DEFINE to == [deploys[d] EXCEPT !.at = "restart"]
    <2>1. to.at = "restart"
        BY <1>1
    <2>2. /\ deploys' = [deploys EXCEPT ![d] = to]
          /\ deploys[d].at = "key" /\ key' = deploys[d].key /\ UNCHANGED <<cert, cmd, live>>
          /\ \/ pair = d /\ pair' = "whole"
             \/ pair = "whole" /\ pair' = "mixed"
             \/ pair \notin {d, "whole"} /\ pair' = pair
        BY <1>6 DEF ReplaceKey, KeyBy, Overwritten
    <2> HIDE DEF to
    <2>3. deploys'[d] = to /\ \A x \in Deployers \ {d} : deploys'[x] = deploys[x]
        BY <1>2, <2>2
    <2>4. deploys[d].key = deploys[d].cert /\ deploys[d].cert # Cut
        BY <1>1, <2>2, IssuesPresent DEF Calm
    <2> QED BY <2>1, <2>2, <2>3, <2>4, InstallationAssumption DEF Pair
<1>7. CASE RestartService(d) \/ RestartFails(d) \/ DeployBreaks(d)
    <2>1. NotDeploying.at = "idle"
        BY DEF NotDeploying
    <2>2. UNCHANGED <<written, cmd, live>> /\ deploys' = [deploys EXCEPT ![d] = NotDeploying]
        BY <1>7 DEF RestartService, RestartFails, DeployBreaks, files
    <2> QED BY <1>3, <2>1, <2>2
<1> QED BY <1>4, <1>5, <1>6, <1>7 DEF DeployStep

LEMMA PairInv ==
    ASSUME Pair, Calm, Deployments, [Next]_vars
    PROVE  Pair'
<1>1. CASE /\ UNCHANGED <<written, deploys>>
           /\ cmd' = "copy key" => cmd = "copy key" /\ live' = live
    BY <1>1, FilesKeepPair
<1>2. CASE CopyCertificate \/ CopyKey \/ PurgeConfig \/ Breaks
    <2>1. deploys' = deploys
        BY <1>2 DEF CopyCertificate, CopyKey, PurgeConfig, Breaks
    <2> QED BY <1>2, <2>1, CommandKeepsPair
<1>3. CASE InstallStep /\ ~CopyCertificate /\ ~CopyKey
    BY <1>1, <1>3 DEF InstallStep, EnsureRuntime, AfterBinary, Goto, Download, InstallArchive,
       ensureCertificate, ensureCertificateDeployHook, MakeStateDir, OpenDatabase, Initialize,
       InitializeAdmin, writeServiceUnit, EnableService, files
<1>4. CASE UninstallStep /\ ~PurgeConfig
    BY <1>1, <1>4 DEF UninstallStep, removeCertificateDeployHook, DisableService, RemoveUnit,
       PurgeState, Goto, files
<1>5. CASE BeginInstall \/ \E all \in BOOLEAN : BeginUninstall(all)
    <2>1. /\ UNCHANGED written /\ deploys' \in {deploys, Disturbed}
          /\ cmd' = "copy key" => cmd = "copy key" /\ live' = live
        BY <1>5 DEF BeginInstall, BeginUninstall, Goto, files
    <2>2. \A d \in Deployers :
             deploys'[d].at = "key" => deploys[d].at = "key" /\ deploys'[d].cert = deploys[d].cert
        BY <2>1, DisturbedKeeps
    <2> QED BY <2>1, <2>2, FilesKeepPair
<1>6. CASE Renew
    BY <1>6, RenewalKeepsPair
<1>7. ASSUME NEW d \in Deployers, DeployByHand(d) PROVE Pair'
    <2>1. UNCHANGED <<written, cmd, live>> /\ BeginDeploy(d)
        BY <1>7 DEF DeployByHand
    <2> QED BY <2>1, BeginKeepsPair, FilesKeepPair
<1>8. ASSUME NEW d \in Deployers, DeployStep(d) \/ DeployBreaks(d) PROVE Pair'
    BY <1>8, DeployKeepsPair
<1>9. CASE ResetAdmin \/ PanelStep \/ UNCHANGED vars
    BY <1>1, <1>9 DEF ResetAdmin, PanelStep, vars, files
<1> QED
    BY <1>2, <1>3, <1>4, <1>5, <1>6, <1>7, <1>8, <1>9
       DEF Next, InstallAgain, PurgeRefused, ResetMissing, Unforced

-----------------------------------------------------------------------------
(* There are no more logins under way than requests.                       *)
LEMMA Few ==
    ASSUME NEW S \in SUBSET Handlers
    PROVE  /\ IsFiniteSet(S) /\ Cardinality(S) \in Nat
           /\ Cardinality(Handlers) \in Nat /\ Cardinality(S) <= Cardinality(Handlers)
           /\ \A T \in SUBSET S : Cardinality(T) \in Nat /\ Cardinality(T) <= Cardinality(S)
           /\ \A h \in S : Cardinality(S \ {h}) = Cardinality(S) - 1
<1>1. IsFiniteSet(Handlers)
    BY SessionsAssumption
<1>2. IsFiniteSet(S) /\ Cardinality(S) <= Cardinality(Handlers)
    BY <1>1, FS_Subset
<1>3. \A T \in SUBSET S : IsFiniteSet(T) /\ Cardinality(T) <= Cardinality(S)
    BY <1>2, FS_Subset
<1>4. \A h \in S : Cardinality(S \ {h}) = Cardinality(S) - 1
    BY <1>2, FS_RemoveElement
<1> QED BY <1>1, <1>2, <1>3, <1>4, FS_CardinalityType

(* What a request has read, by where it is.                                *)
LEMMA CallKinds ==
    ASSUME Throttle, NEW h \in Handlers
    PROVE  /\ Idle \in Call /\ Idle.at = "idle"
           /\ calls[h].at \in {"login", "store", "refuse", "welcome"} =>
                 /\ calls[h].from \in Addresses
                 /\ \A at \in {"store", "refuse", "welcome"} :
                       /\ [calls[h] EXCEPT !.at = at] \in Call
                       /\ [calls[h] EXCEPT !.at = at].at = at
                       /\ [calls[h] EXCEPT !.at = at].from = calls[h].from
                       /\ [calls[h] EXCEPT !.at = at].typed = calls[h].typed
           /\ calls[h].at = "compare" => [calls[h] EXCEPT !.at = "change"] \in Call
           /\ [calls[h] EXCEPT !.at = "change"].at \in {"change", calls[h].at}
<1>1. calls[h] \in Call
    BY DEF Throttle
<1>2. Idle \in Call /\ Idle.at = "idle"
    BY DEF Call, Idle
<1>3. CASE calls[h] = Idle
    BY <1>2, <1>3 DEF Idle
<1>4. CASE calls[h] \in [at : {"login", "store", "refuse", "welcome"},
                       from : Addresses, typed : Nat]
    BY <1>2, <1>4 DEF Call
<1>5. CASE calls[h] \in [at : {"logout"}, session : Nat]
    BY <1>2, <1>5
<1>6. CASE calls[h] \in [at : {"compare", "change"}, typed : Nat]
    BY <1>2, <1>6 DEF Call
<1> QED BY <1>1, <1>3, <1>4, <1>5, <1>6 DEF Call

(* One request goes on.                                                    *)
LEMMA CallMoves ==
    ASSUME Throttle, NEW h \in Handlers, NEW to \in Call, calls' = [calls EXCEPT ![h] = to]
    PROVE  /\ calls' \in [Handlers -> Call]
           /\ \A a \in Addresses :
                 /\ Attempts(a)' \subseteq Attempts(a) \cup {h}
                 /\ to.at \notin {"login", "store", "refuse"} =>
                       Attempts(a)' \subseteq Attempts(a) \ {h}
                 /\ to.at \in {"login", "store", "refuse"} /\ to.from # a =>
                       Attempts(a)' \subseteq Attempts(a)
<1>1. calls' \in [Handlers -> Call] /\ calls'[h] = to
    BY DEF Throttle
<1>2. \A x \in Handlers \ {h} : calls'[x] = calls[x]
    BY DEF Throttle
<1> QED BY <1>1, <1>2 DEF Attempts

(* An address of which nothing is recorded and nothing new is let in.      *)
LEMMA AddressStays ==
    ASSUME Throttle, NEW a \in Addresses, logins'[a] = logins[a],
           Attempts(a)' \subseteq Attempts(a)
    PROVE  Counted(a)'
<1>1. Attempts(a) \in SUBSET Handlers
    BY DEF Attempts
<1>2. /\ Cardinality(Attempts(a)') <= Cardinality(Attempts(a))
      /\ Cardinality(Attempts(a)') \in Nat /\ Cardinality(Attempts(a)) \in Nat
      /\ Cardinality(Handlers) \in Nat
    BY <1>1, Few
<1>3. LoginLimit \in Nat /\ logins[a].failures \in Nat /\ Counted(a)
    BY SessionsAssumption DEF Throttle
<1> QED BY <1>2, <1>3 DEF Counted

LEMMA CallsKeepThrottle ==
    ASSUME Throttle, NEW h \in Handlers, NEW to \in Call, calls' = [calls EXCEPT ![h] = to],
           logins' = logins,
           to.at \in {"login", "store", "refuse"} =>
               calls[h].at \in {"login", "store", "refuse"} /\ to.from = calls[h].from
    PROVE  Throttle'
<1>1. \A a \in Addresses : Attempts(a)' \subseteq Attempts(a)
    <2> SUFFICES ASSUME NEW a \in Addresses PROVE Attempts(a)' \subseteq Attempts(a)
        OBVIOUS
    <2>1. CASE to.at \in {"login", "store", "refuse"} /\ to.from = a
        <3>1. h \in Attempts(a)
            BY <2>1 DEF Attempts
        <3> QED BY <3>1, CallMoves
    <2> QED BY <2>1, CallMoves
<1>2. \A a \in Addresses : Counted(a)'
    BY <1>1, AddressStays
<1> QED BY <1>2, CallMoves DEF Throttle

(* The record of one address changes.                                      *)
LEMMA RecordKeeps ==
    ASSUME Throttle, NEW a \in Addresses,
           NEW item \in [failures : Nat, window : {"none", "open", "over"}, locked : BOOLEAN],
           logins' = [logins EXCEPT ![a] = item], calls' \in [Handlers -> Call],
           \A x \in Addresses : Attempts(x)' \subseteq Attempts(x),
           Counted(a)'
    PROVE  Throttle'
<1>1. /\ logins' \in [Addresses -> [failures : Nat, window : {"none", "open", "over"},
                                    locked : BOOLEAN]]
      /\ \A x \in Addresses \ {a} : logins'[x] = logins[x]
    BY DEF Throttle
<1>2. \A x \in Addresses \ {a} : Counted(x)'
    BY <1>1, AddressStays
<1> QED BY <1>1, <1>2 DEF Throttle

(* A login is let in only below the limit.                                 *)
LEMMA BeginLoginKeeps ==
    ASSUME Throttle, NEW h \in Handlers, NEW a \in Addresses, NEW typed \in Nat,
           BeginLogin(h, a, typed)
    PROVE  Throttle'
<1> DEFINE to == [at |-> "login", from |-> a, typed |-> typed]
<1>1. to \in Call /\ to.at = "login" /\ to.from = a
    BY DEF Call
<1>2. calls' = [calls EXCEPT ![h] = to] /\ logins' = logins /\ ~logins[a].locked
    BY DEF BeginLogin, allowLogin
<1> HIDE DEF to
<1>3. /\ calls' \in [Handlers -> Call]
      /\ \A x \in Addresses \ {a} : Attempts(x)' \subseteq Attempts(x)
    BY <1>1, <1>2, CallMoves
<1>4. \A x \in Addresses \ {a} : Counted(x)'
    BY <1>2, <1>3, AddressStays
<1>5. Counted(a)'
    <2>1. Attempts(a)' \in SUBSET Handlers
        BY DEF Attempts
    <2>2. /\ Cardinality(Attempts(a)') \in Nat /\ Cardinality(Handlers) \in Nat
          /\ Cardinality(Attempts(a)') <= Cardinality(Handlers)
        BY <2>1, Few
    <2>3. LoginLimit \in Nat /\ logins[a].failures \in Nat /\ Counted(a)
        BY SessionsAssumption DEF Throttle
    <2> QED BY <1>2, <2>2, <2>3 DEF Counted
<1> QED BY <1>2, <1>3, <1>4, <1>5 DEF Throttle

(* A failure counted is a login that is no longer under way.               *)
LEMMA FailureKeeps ==
    ASSUME Throttle, NEW h \in Handlers, recordLoginFailure(h)
    PROVE  Throttle'
<1>1. PICK a \in Addresses : a = calls[h].from
    BY CallKinds DEF recordLoginFailure
<1> DEFINE before == Attempt(logins[a])
           failures == before.failures + 1
           item == [before EXCEPT !.failures = failures,
                                  !.locked = @ \/ failures >= LoginLimit]
<1>2. /\ calls[h].at = "refuse" /\ calls[h].from = a
      /\ calls' = [calls EXCEPT ![h] = Idle] /\ Idle \in Call /\ Idle.at = "idle"
      /\ logins' = [logins EXCEPT ![a] = item]
    BY <1>1, CallKinds DEF recordLoginFailure, Answer
<1>3. logins[a] \in [failures : Nat, window : {"none", "open", "over"}, locked : BOOLEAN]
    BY <1>2 DEF Throttle
<1>4. /\ before \in [failures : Nat, window : {"open"}, locked : BOOLEAN]
      /\ logins[a].window = "open" => before = logins[a]
      /\ logins[a].window # "open" => before.failures = 0
    BY <1>3 DEF Attempt, NoAttempt
<1> HIDE DEF before
<1>5. failures \in Nat
    BY <1>4
<1>6. /\ item \in [failures : Nat, window : {"open"}, locked : BOOLEAN]
      /\ item.failures = failures
      /\ failures >= LoginLimit => item.locked
    BY <1>4, <1>5
<1> HIDE DEF item
<1>7. /\ calls' \in [Handlers -> Call]
      /\ \A x \in Addresses : Attempts(x)' \subseteq Attempts(x) \ {h}
    BY <1>2, CallMoves
<1>8. Counted(a)'
    <2>1. logins'[a] = item
        BY <1>2 DEF Throttle
    <2>2. /\ h \in Attempts(a) /\ Attempts(a) \in SUBSET Handlers
          /\ Attempts(a) \ {h} \in SUBSET Attempts(a)
        BY <1>2 DEF Attempts
    <2>3. /\ Cardinality(Attempts(a)) \in Nat /\ Cardinality(Handlers) \in Nat
          /\ Cardinality(Attempts(a)) <= Cardinality(Handlers)
          /\ Cardinality(Attempts(a) \ {h}) = Cardinality(Attempts(a)) - 1
        BY <2>2, Few
    <2>4. Attempts(a) \ {h} \in SUBSET Handlers /\ Attempts(a)' \in SUBSET (Attempts(a) \ {h})
        BY <1>2, <1>7, <2>2
    <2>5. /\ Cardinality(Attempts(a)') \in Nat
          /\ Cardinality(Attempts(a)') <= Cardinality(Attempts(a) \ {h})
        BY <2>4, Few
    <2>6. failures + Cardinality(Attempts(a)') < LoginLimit + Cardinality(Handlers)
        <3>1. LoginLimit \in Nat \ {0} /\ before.failures \in Nat
            BY <1>4, SessionsAssumption
        <3>2. CASE logins[a].window = "open"
            <4>1. before.failures + Cardinality(Attempts(a)) < LoginLimit + Cardinality(Handlers)
                BY <1>2, <1>4, <3>2 DEF Throttle, Counted
            <4> QED BY <2>3, <2>5, <3>1, <4>1
        <3>3. CASE logins[a].window # "open"
            <4>1. before.failures = 0
                BY <1>4, <3>3
            <4> QED BY <2>3, <2>5, <3>1, <4>1
        <3> QED BY <3>2, <3>3
    <2>7. failures < LoginLimit + Cardinality(Handlers)
        BY <1>5, <2>3, <2>5, <2>6, SessionsAssumption
    <2>8. ~item.locked => failures < LoginLimit
        BY <1>5, <1>6, SessionsAssumption
    <2> HIDE DEF failures
    <2> QED BY <1>6, <2>1, <2>6, <2>7, <2>8 DEF Counted
<1> QED BY <1>2, <1>6, <1>7, <1>8, RecordKeeps

(* A record that begins anew, a window and a lock that end.                *)
LEMMA RecordEnds ==
    ASSUME Throttle, NEW a \in Addresses, calls' \in [Handlers -> Call],
           \A x \in Addresses : Attempts(x)' \subseteq Attempts(x),
           NEW item \in [failures : Nat, window : {"none", "open", "over"}, locked : BOOLEAN],
           logins' = [logins EXCEPT ![a] = item],
           item.window # "open", item.failures \in {0, logins[a].failures}
    PROVE  Throttle'
<1>1. logins'[a] = item /\ logins[a].failures \in Nat
    BY DEF Throttle
<1>2. Counted(a)'
    <2>1. LoginLimit \in Nat \ {0} /\ Cardinality(Handlers) \in Nat
        BY Few, SessionsAssumption
    <2>2. logins[a].failures < LoginLimit + Cardinality(Handlers)
        BY DEF Throttle, Counted
    <2>3. item.failures < LoginLimit + Cardinality(Handlers)
        BY <1>1, <2>1, <2>2
    <2> QED BY <1>1, <2>3 DEF Counted
<1> QED BY <1>2, RecordKeeps

(* Whatever requests do, and whatever ends, together.                      *)
LEMMA PanelKeepsThrottle ==
    ASSUME Accounts, Throttle, PanelNext
    PROVE  Throttle'
<1>1. ASSUME NEW h \in Handlers, NEW a \in Addresses, NEW typed \in 0..made,
             BeginLogin(h, a, typed)
      PROVE  Throttle'
    <2>1. typed \in Nat
        BY DEF Accounts
    <2> QED BY <1>1, <2>1, BeginLoginKeeps
<1>2. ASSUME NEW h \in Handlers, LoginVerifies(h) \/ LoginStores(h) PROVE Throttle'
    <2>1. PICK at \in {"store", "refuse", "welcome"} :
             calls' = [calls EXCEPT ![h] = [calls[h] EXCEPT !.at = at]]
        BY <1>2 DEF LoginVerifies, LoginStores, Continue, Throttle
    <2>2. calls[h].at \in {"login", "store"} /\ logins' = logins
        BY <1>2 DEF LoginVerifies, LoginStores
    <2> QED BY <2>1, <2>2, CallKinds, CallsKeepThrottle
<1>3. ASSUME NEW h \in Handlers, recordLoginFailure(h) PROVE Throttle'
    BY <1>3, FailureKeeps
<1>4. ASSUME NEW h \in Handlers, resetLogin(h) PROVE Throttle'
    <2>1. PICK a \in Addresses :
             logins' = [logins EXCEPT ![a] = NoAttempt] /\ calls' = [calls EXCEPT ![h] = Idle]
        BY <1>4, CallKinds DEF resetLogin, Answer
    <2>2. /\ calls' \in [Handlers -> Call]
          /\ \A x \in Addresses : Attempts(x)' \subseteq Attempts(x)
        BY <2>1, CallKinds, CallMoves
    <2>3. /\ NoAttempt \in [failures : Nat, window : {"none", "open", "over"}, locked : BOOLEAN]
          /\ NoAttempt.window # "open" /\ NoAttempt.failures = 0
        BY DEF NoAttempt
    <2> QED BY <2>1, <2>2, <2>3, RecordEnds
<1>5. ASSUME NEW a \in Addresses, NEW item,
             \/ item = [logins[a] EXCEPT !.window = "over"]
             \/ item = [logins[a] EXCEPT !.locked = FALSE] /\ logins[a].window = "over",
             logins' = [logins EXCEPT ![a] = item], calls' = calls
      PROVE  Throttle'
    <2>1. /\ calls' \in [Handlers -> Call]
          /\ \A x \in Addresses : Attempts(x)' \subseteq Attempts(x)
        BY <1>5 DEF Throttle, Attempts
    <2>2. logins[a] \in [failures : Nat, window : {"none", "open", "over"}, locked : BOOLEAN]
        BY DEF Throttle
    <2>3. /\ item \in [failures : Nat, window : {"none", "open", "over"}, locked : BOOLEAN]
          /\ item.window # "open" /\ item.failures = logins[a].failures
        BY <1>5, <2>2
    <2> QED BY <1>5, <2>1, <2>3, RecordEnds
<1>6. ASSUME NEW a \in Addresses, WindowEnds(a) \/ LockEnds(a) PROVE Throttle'
    <2>1. CASE WindowEnds(a)
        <3>1. /\ logins' = [logins EXCEPT ![a] = [logins[a] EXCEPT !.window = "over"]]
              /\ calls' = calls
            BY <2>1 DEF WindowEnds, Throttle
        <3> QED BY <1>5, <3>1
    <2>2. CASE LockEnds(a)
        <3>1. /\ logins' = [logins EXCEPT ![a] = [logins[a] EXCEPT !.locked = FALSE]]
              /\ calls' = calls /\ logins[a].window = "over"
            BY <2>2 DEF LockEnds, Throttle
        <3> QED BY <1>5, <3>1
    <2> QED BY <1>6, <2>1, <2>2
<1>7. ASSUME NEW h \in Handlers, Logout(h) \/ ChangeCompares(h) \/ ChangePassword(h)
      PROVE  Throttle'
    <2>1. PICK to \in {Idle, [calls[h] EXCEPT !.at = "change"]} :
             /\ calls' = [calls EXCEPT ![h] = to] /\ logins' = logins
             /\ to = Idle \/ calls[h].at = "compare"
        BY <1>7 DEF Logout, ChangeCompares, ChangePassword, Continue, Answer, Throttle
    <2> QED BY <2>1, CallKinds, CallsKeepThrottle
<1>8. ASSUME NEW h \in Handlers, NEW to, logins' = logins, calls' = [calls EXCEPT ![h] = to],
             \/ to \in [at : {"logout"}, session : Nat]
             \/ to \in [at : {"compare"}, typed : Nat]
      PROVE  Throttle'
    <2>1. to \in Call /\ to.at \notin {"login", "store", "refuse"}
        BY <1>8 DEF Call
    <2> QED BY <1>8, <2>1, CallsKeepThrottle
<1>9. ASSUME NEW h \in Handlers, NEW s \in DOMAIN sessions, BeginLogout(h, s)
      PROVE  Throttle'
    <2>1. s \in Nat
        BY DEF Accounts
    <2> QED BY <1>8, <1>9, <2>1 DEF BeginLogout
<1>10. ASSUME NEW h \in Handlers, NEW s, NEW typed \in 0..made, BeginChange(h, s, typed)
       PROVE  Throttle'
    <2>1. typed \in Nat
        BY DEF Accounts
    <2> QED BY <1>8, <1>10, <2>1 DEF BeginChange
<1>11. ASSUME NEW s, SessionExpires(s) PROVE Throttle'
    <2>1. UNCHANGED <<logins, calls>>
        BY <1>11 DEF SessionExpires, panel
    <2> QED BY <2>1 DEF Throttle, Attempts, Counted
<1> QED
    BY <1>1, <1>2, <1>3, <1>4, <1>6, <1>7, <1>9, <1>10, <1>11 DEF PanelNext, HandlerStep

LEMMA ThrottleAtFirst ==
    ASSUME logins = [a \in Addresses |-> NoAttempt], calls = [h \in Handlers |-> Idle]
    PROVE  Throttle
<1>1. logins \in [Addresses -> [failures : Nat, window : {"none", "open", "over"},
                                locked : BOOLEAN]]
    BY DEF NoAttempt
<1>2. calls \in [Handlers -> Call]
    BY DEF Call, Idle
<1>3. ASSUME NEW a \in Addresses PROVE Counted(a)
    <2>1. logins[a].failures = 0 /\ logins[a].window = "none"
        BY DEF NoAttempt
    <2>2. 0 < LoginLimit + Cardinality(Handlers)
        <3>1. LoginLimit \in Nat \ {0} /\ Cardinality(Handlers) \in Nat
            BY Few, SessionsAssumption
        <3> QED BY <3>1
    <2> QED BY <2>1, <2>2 DEF Counted
<1> QED BY <1>1, <1>2, <1>3 DEF Throttle

LEMMA ThrottleStarts ==
    ASSUME logins' = [a \in Addresses |-> NoAttempt], calls' = [h \in Handlers |-> Idle]
    PROVE  Throttle'
<1>1. logins' \in [Addresses -> [failures : Nat, window : {"none", "open", "over"},
                                locked : BOOLEAN]]
    BY DEF NoAttempt
<1>2. calls' \in [Handlers -> Call]
    BY DEF Call, Idle
<1>3. ASSUME NEW a \in Addresses PROVE Counted(a)'
    <2>1. logins'[a].failures = 0 /\ logins'[a].window = "none"
        BY DEF NoAttempt
    <2>2. 0 < LoginLimit + Cardinality(Handlers)
        <3>1. LoginLimit \in Nat \ {0} /\ Cardinality(Handlers) \in Nat
            BY Few, SessionsAssumption
        <3> QED BY <3>1
    <2> QED BY <2>1, <2>2 DEF Counted
<1> QED BY <1>1, <1>2, <1>3 DEF Throttle

(* Only the panel and its end touch the throttle.                          *)
LEMMA ThrottleInv ==
    ASSUME Accounts, Throttle, [Next]_vars
    PROVE  Throttle'
<1>1. CASE UNCHANGED panel
    BY <1>1 DEF panel, Throttle, Attempts, Counted
<1>2. CASE PanelEnds
    BY <1>2, ThrottleStarts DEF PanelEnds
<1>3. CASE PanelStep
    BY <1>3, PanelKeepsThrottle DEF PanelStep
<1>4. CASE InstallStep
    BY <1>1, <1>4 DEF InstallStep, EnsureRuntime, Download, InstallArchive, ensureCertificate,
       CopyCertificate, CopyKey, ensureCertificateDeployHook, MakeStateDir, OpenDatabase,
       Initialize, InitializeAdmin, writeServiceUnit, EnableService, sessionVars
<1>5. CASE UninstallStep
    BY <1>1, <1>2, <1>5 DEF UninstallStep, removeCertificateDeployHook, DisableService, RemoveUnit,
       PurgeState, PurgeConfig, Stops, sessionVars
<1>6. CASE \E d \in Deployers : DeployByHand(d) \/ DeployStep(d) \/ DeployBreaks(d)
    BY <1>1, <1>2, <1>6 DEF DeployByHand, DeployStep, DeployBreaks, ReadCertificate, ReadKey,
       ReplaceCertificate, ReplaceKey, RestartService, RestartFails, sessionVars
<1>7. CASE \/ BeginInstall \/ (\E all \in BOOLEAN : BeginUninstall(all)) \/ ResetAdmin
           \/ Renew \/ Breaks \/ UNCHANGED vars
    BY <1>1, <1>7 DEF BeginInstall, BeginUninstall, ResetAdmin, Renew, Breaks, vars, sessionVars
<1> QED
    BY <1>3, <1>4, <1>5, <1>6, <1>7 DEF Next, InstallAgain, PurgeRefused, ResetMissing, Unforced

-----------------------------------------------------------------------------
(* The accounts are written by the panel's statements, by install, by      *)
(* reset-admin and by purge, and by nothing else.                          *)

LEMMA OutdatedFinite ==
    ASSUME sessions \in Seq(Nat)
    PROVE  IsFiniteSet(Outdated) /\ \A T \in SUBSET Outdated : IsFiniteSet(T)
<1>1. Len(sessions) \in Nat /\ DOMAIN sessions = 1 .. Len(sessions)
    OBVIOUS
<1>2. IsFiniteSet(DOMAIN sessions)
    BY <1>1, FS_Interval
<1>3. Outdated \in SUBSET DOMAIN sessions
    BY DEF Outdated
<1> QED BY <1>2, <1>3, FS_Subset

(* No session and no login is left behind by the password.                 *)
LEMMA NoneLeftBehind ==
    ASSUME Accounts, admin' \in Nat, made' \in Nat, sessions' \in Seq(Nat),
           Outdated' \subseteq Outdated, Late' \subseteq Late
    PROVE  Accounts'
<1>1. /\ IsFiniteSet(Outdated) /\ Cardinality(Outdated') <= Cardinality(Outdated)
      /\ Cardinality(Outdated) \in Nat /\ Cardinality(Outdated') \in Nat
    BY OutdatedFinite, FS_Subset, FS_CardinalityType DEF Accounts
<1>2. Late \in SUBSET Handlers /\ Late' \in SUBSET Late
    BY DEF Late
<1>3. /\ Cardinality(Late') <= Cardinality(Late)
      /\ Cardinality(Late) \in Nat /\ Cardinality(Late') \in Nat
      /\ Cardinality(Handlers) \in Nat
    BY <1>2, Few
<1>4. Cardinality(Outdated) + Cardinality(Late) <= Cardinality(Handlers)
    BY DEF Accounts, FewOutdated
<1>5. Cardinality(Outdated') + Cardinality(Late') <= Cardinality(Handlers)
    BY <1>1, <1>3, <1>4
<1> QED BY <1>5 DEF Accounts, FewOutdated

(* Every session ends at once.                                             *)
LEMMA AllEnded ==
    ASSUME admin' \in Nat, made' \in Nat, sessions' \in Seq(Nat), Outdated' = {}
    PROVE  Accounts'
<1>1. Late' \in SUBSET Handlers
    BY DEF Late
<1>2. /\ Cardinality(Late') <= Cardinality(Handlers)
      /\ Cardinality(Late') \in Nat /\ Cardinality(Handlers) \in Nat
    BY <1>1, Few
<1>3. Cardinality(Outdated') = 0
    BY FS_EmptySet
<1>4. Cardinality(Outdated') + Cardinality(Late') <= Cardinality(Handlers)
    BY <1>2, <1>3
<1> QED BY <1>4 DEF Accounts, FewOutdated

LEMMA SetPasswordKeeps ==
    ASSUME Accounts, SetPassword
    PROVE  Accounts'
<1>1. sessions' \in Seq(Nat) /\ admin' \in Nat /\ made' \in Nat
    BY ZeroedIsSequence DEF Accounts, SetPassword
<1>2. Outdated' = {}
    BY DEF Outdated, SetPassword
<1> QED BY <1>1, <1>2, AllEnded

(* A request goes on; it stores a session only if it has compared the      *)
(* password in force.                                                      *)
LEMMA NoneLater ==
    ASSUME Throttle, NEW h \in Handlers, NEW to, calls' = [calls EXCEPT ![h] = to],
           admin' = admin, to.at = "store" => to.typed = admin
    PROVE  Late' \subseteq Late
<1>1. calls'[h] = to /\ \A x \in Handlers \ {h} : calls'[x] = calls[x]
    BY DEF Throttle
<1> QED BY <1>1 DEF Late

LEMMA CallsKeepAccounts ==
    ASSUME Accounts, UNCHANGED accounts, Late' \subseteq Late
    PROVE  Accounts'
<1>1. admin' \in Nat /\ made' \in Nat /\ sessions' \in Seq(Nat) /\ Outdated' = Outdated
    BY DEF Accounts, accounts, Outdated
<1> QED BY <1>1, NoneLeftBehind

(* A session ends.                                                         *)
LEMMA EndedKeepsAccounts ==
    ASSUME Accounts, NEW x, sessions' = [sessions EXCEPT ![x] = 0], UNCHANGED <<admin, made>>,
           Late' \subseteq Late
    PROVE  Accounts'
<1>1. admin' \in Nat /\ made' \in Nat /\ sessions' \in Seq(Nat)
    BY ZeroedIsSequence DEF Accounts
<1>2. Outdated' \subseteq Outdated
    BY ZeroedIsSequence DEF Accounts, Outdated
<1> QED BY <1>1, <1>2, NoneLeftBehind

(* The session of a login that has compared an old password is one more    *)
(* that is outdated, and the login is no longer under way.                 *)
LEMMA StoredKeepsAccounts ==
    ASSUME Accounts, Throttle, NEW h \in Handlers, calls[h].at = "store",
           sessions' = Append(sessions, calls[h].typed), UNCHANGED <<admin, made>>,
           calls' = [calls EXCEPT ![h] = [calls[h] EXCEPT !.at = "welcome"]]
    PROVE  Accounts'
<1>1. calls[h].typed \in Nat /\ [calls[h] EXCEPT !.at = "welcome"].at = "welcome"
    <2>1. calls[h] \in Call
        BY DEF Throttle
    <2> QED BY <2>1, CallKinds DEF Call, Idle
<1>2. admin' \in Nat /\ made' \in Nat /\ sessions' \in Seq(Nat)
    BY <1>1 DEF Accounts
<1>3. Late' \subseteq Late \ {h}
    <2>1. calls'[h].at = "welcome" /\ \A x \in Handlers \ {h} : calls'[x] = calls[x]
        BY <1>1 DEF Throttle
    <2> QED BY <2>1 DEF Late
<1> DEFINE new == Len(sessions) + 1
<1>4. /\ DOMAIN sessions' = DOMAIN sessions \cup {new}
      /\ new \notin DOMAIN sessions
      /\ \A s \in DOMAIN sessions : sessions'[s] = sessions[s]
      /\ sessions'[new] = calls[h].typed
    BY <1>1 DEF Accounts
<1> HIDE DEF new
<1>5. CASE calls[h].typed = admin
    <2>1. Outdated' \subseteq Outdated /\ Late' \subseteq Late
        BY <1>3, <1>4, <1>5 DEF Outdated
    <2> QED BY <1>2, <2>1, NoneLeftBehind
<1>6. CASE calls[h].typed # admin
    <2>1. h \in Late
        BY <1>6 DEF Late
    <2>2. Late \in SUBSET Handlers /\ Late \ {h} \in SUBSET Handlers
          /\ Late' \in SUBSET (Late \ {h})
        BY <1>3 DEF Late
    <2>3. /\ Cardinality(Late \ {h}) = Cardinality(Late) - 1
          /\ Cardinality(Late') <= Cardinality(Late \ {h})
          /\ Cardinality(Late) \in Nat /\ Cardinality(Late') \in Nat
          /\ Cardinality(Handlers) \in Nat
        BY <2>1, <2>2, Few
    <2>4. Outdated' \in SUBSET (Outdated \cup {new}) /\ new \notin Outdated
        BY <1>4 DEF Outdated
    <2>5. IsFiniteSet(Outdated)
        BY OutdatedFinite DEF Accounts
    <2>6. /\ IsFiniteSet(Outdated \cup {new})
          /\ Cardinality(Outdated \cup {new}) = Cardinality(Outdated) + 1
        BY <2>4, <2>5, FS_AddElement
    <2>7. /\ Cardinality(Outdated') <= Cardinality(Outdated \cup {new})
          /\ Cardinality(Outdated) \in Nat /\ Cardinality(Outdated') \in Nat
        BY <2>4, <2>5, <2>6, FS_Subset, FS_CardinalityType
    <2>8. Cardinality(Outdated) + Cardinality(Late) <= Cardinality(Handlers)
        BY DEF Accounts, FewOutdated
    <2>9. Cardinality(Outdated') + Cardinality(Late') <= Cardinality(Handlers)
        BY <2>3, <2>6, <2>7, <2>8
    <2> QED BY <1>2, <2>9 DEF Accounts, FewOutdated
<1> QED BY <1>5, <1>6

LEMMA PanelKeepsAccounts ==
    ASSUME Accounts, Throttle, PanelNext
    PROVE  Accounts'
<1>1. ASSUME UNCHANGED accounts, NEW h \in Handlers, NEW to, calls' = [calls EXCEPT ![h] = to],
             to.at = "store" => to.typed = admin
      PROVE  Accounts'
    BY <1>1, NoneLater, CallsKeepAccounts DEF accounts
<1>2. ASSUME UNCHANGED calls, UNCHANGED admin PROVE Late' \subseteq Late
    BY <1>2 DEF Late
<1>3. ASSUME NEW h \in Handlers, LoginVerifies(h) PROVE Accounts'
    <2>1. PICK at \in {"store", "refuse"} :
             /\ calls' = [calls EXCEPT ![h] = [calls[h] EXCEPT !.at = at]]
             /\ at = "store" => calls[h].typed = admin
        BY <1>3 DEF LoginVerifies, Continue, Throttle
    <2>2. calls[h].at = "login" /\ UNCHANGED accounts
        BY <1>3 DEF LoginVerifies
    <2>3. /\ [calls[h] EXCEPT !.at = at].at = at
          /\ [calls[h] EXCEPT !.at = at].typed = calls[h].typed
        BY <2>2, CallKinds
    <2> QED BY <1>1, <2>1, <2>2, <2>3
<1>4. ASSUME NEW h \in Handlers, LoginStores(h) PROVE Accounts'
    <2>1. calls[h].at = "store" /\ UNCHANGED <<admin, made>>
        BY <1>4 DEF LoginStores
    <2>2. CASE /\ sessions' = Append(sessions, calls[h].typed)
               /\ calls' = [calls EXCEPT ![h] = [calls[h] EXCEPT !.at = "welcome"]]
        BY <2>1, <2>2, StoredKeepsAccounts
    <2>3. CASE /\ sessions' = sessions
               /\ calls' = [calls EXCEPT ![h] = [calls[h] EXCEPT !.at = "refuse"]]
        <3>1. [calls[h] EXCEPT !.at = "refuse"].at = "refuse"
            BY <2>1, CallKinds
        <3> QED BY <1>1, <2>1, <2>3, <3>1 DEF accounts
    <2> QED BY <1>4, <2>2, <2>3 DEF LoginStores, Continue, Throttle
<1>5. ASSUME NEW h \in Handlers, recordLoginFailure(h) \/ resetLogin(h) PROVE Accounts'
    <2>1. UNCHANGED accounts /\ calls' = [calls EXCEPT ![h] = Idle] /\ Idle.at = "idle"
        BY <1>5, CallKinds DEF recordLoginFailure, resetLogin, Answer
    <2> QED BY <1>1, <2>1
<1>6. ASSUME NEW h \in Handlers, Logout(h) PROVE Accounts'
    <2>1. /\ sessions' = [sessions EXCEPT ![calls[h].session] = 0] /\ UNCHANGED <<admin, made>>
          /\ calls' = [calls EXCEPT ![h] = Idle] /\ Idle.at = "idle"
        BY <1>6, CallKinds DEF Logout, Answer
    <2>2. Late' \subseteq Late
        BY <2>1, NoneLater
    <2> QED BY <2>1, <2>2, EndedKeepsAccounts
<1>7. ASSUME NEW h \in Handlers, ChangeCompares(h) PROVE Accounts'
    <2>1. PICK to \in {Idle, [calls[h] EXCEPT !.at = "change"]} :
             UNCHANGED accounts /\ calls' = [calls EXCEPT ![h] = to] /\ calls[h].at = "compare"
        BY <1>7 DEF ChangeCompares, Continue, Answer, Throttle
    <2>2. to.at # "store"
        BY <2>1, CallKinds
    <2> QED BY <1>1, <2>1, <2>2
<1>8. ASSUME NEW h \in Handlers, ChangePassword(h) PROVE Accounts'
    <2>1. CASE SetPassword
        BY <2>1, SetPasswordKeeps
    <2>2. CASE UNCHANGED accounts
        <3>1. calls' = [calls EXCEPT ![h] = Idle] /\ Idle.at = "idle"
            BY <1>8, CallKinds DEF ChangePassword, Answer
        <3> QED BY <1>1, <2>2, <3>1
    <2> QED BY <1>8, <2>1, <2>2 DEF ChangePassword
<1>9. ASSUME NEW s, SessionExpires(s) PROVE Accounts'
    <2>1. /\ sessions' = [sessions EXCEPT ![s] = 0] /\ UNCHANGED <<admin, made>>
          /\ UNCHANGED calls
        BY <1>9 DEF SessionExpires, panel
    <2> QED BY <1>2, <2>1, EndedKeepsAccounts
<1>10. ASSUME NEW h \in Handlers, NEW a, NEW typed, BeginLogin(h, a, typed) PROVE Accounts'
    BY <1>1, <1>10 DEF BeginLogin
<1>11. ASSUME NEW h \in Handlers, NEW s, NEW typed, BeginLogout(h, s) \/ BeginChange(h, s, typed)
      PROVE  Accounts'
    BY <1>1, <1>11 DEF BeginLogout, BeginChange
<1>12. ASSUME NEW a, WindowEnds(a) \/ LockEnds(a) PROVE Accounts'
    <2>1. UNCHANGED accounts /\ UNCHANGED calls
        BY <1>12 DEF WindowEnds, LockEnds
    <2> QED BY <1>2, <2>1, CallsKeepAccounts DEF accounts
<1> QED
    BY <1>3, <1>4, <1>5, <1>6, <1>7, <1>8, <1>9, <1>10, <1>11, <1>12 DEF PanelNext, HandlerStep

LEMMA AccountsInv ==
    ASSUME Accounts, Throttle, [Next]_vars
    PROVE  Accounts'
<1>1. CASE UNCHANGED accounts /\ (UNCHANGED panel \/ PanelEnds)
    <2>1. Idle.at = "idle"
        BY DEF Idle
    <2>2. Late' \subseteq Late
        BY <1>1, <2>1 DEF Late, accounts, panel, PanelEnds
    <2> QED BY <1>1, <2>2, CallsKeepAccounts
<1>2. CASE InitializeAdmin \/ ResetAdmin
    BY <1>2, SetPasswordKeeps DEF InitializeAdmin, ResetAdmin
<1>3. CASE PurgeState
    <2>1. admin' = 0 /\ made' = 0 /\ sessions' = <<>>
        BY <1>3 DEF PurgeState
    <2>2. sessions' \in Seq(Nat) /\ Outdated' = {}
        BY <2>1 DEF Outdated
    <2> QED BY <2>1, <2>2, AllEnded
<1>4. CASE PanelStep
    BY <1>4, PanelKeepsAccounts DEF PanelStep
<1>5. CASE InstallStep /\ ~InitializeAdmin
    BY <1>1, <1>5 DEF InstallStep, EnsureRuntime, Download, InstallArchive, ensureCertificate,
       CopyCertificate, CopyKey, ensureCertificateDeployHook, MakeStateDir, OpenDatabase,
       Initialize, writeServiceUnit, EnableService, sessionVars
<1>6. CASE UninstallStep /\ ~PurgeState
    BY <1>1, <1>6 DEF UninstallStep, removeCertificateDeployHook, DisableService, RemoveUnit,
       PurgeConfig, sessionVars, Stops, panel
<1>7. CASE \E d \in Deployers : DeployByHand(d) \/ DeployStep(d) \/ DeployBreaks(d)
    BY <1>1, <1>7 DEF DeployByHand, DeployStep, DeployBreaks, ReadCertificate, ReadKey,
       ReplaceCertificate, ReplaceKey, RestartService, RestartFails, sessionVars
<1>8. CASE BeginInstall \/ (\E all \in BOOLEAN : BeginUninstall(all)) \/ Renew \/ Breaks
    BY <1>1, <1>8 DEF BeginInstall, BeginUninstall, Renew, Breaks
<1>9. CASE UNCHANGED vars
    BY <1>1, <1>9 DEF vars, sessionVars
<1> QED
    BY <1>2, <1>3, <1>4, <1>5, <1>6, <1>7, <1>8, <1>9
       DEF Next, InstallAgain, PurgeRefused, ResetMissing, Unforced

-----------------------------------------------------------------------------
(* The invariant from which the next theorems follow.                      *)
THEOREM HostCorrect == Spec => []HostInv
<1>1. Init => HostInv
    <2> SUFFICES ASSUME Init PROVE HostInv
        OBVIOUS
    <2>1. Accounts
        <3>1. admin = 0 /\ made = 0 /\ sessions = <<>> /\ \A h \in Handlers : calls[h].at = "idle"
            BY DEF Init, SessionsInit, Idle
        <3>2. sessions \in Seq(Nat) /\ Outdated = {} /\ Late = {}
            BY <3>1 DEF Outdated, Late
        <3>3. Cardinality({}) = 0 /\ Cardinality(Handlers) \in Nat
            BY Few, FS_EmptySet
        <3> QED BY <3>1, <3>2, <3>3 DEF Accounts, FewOutdated
    <2>2. Reached
        BY DEF Init, Reached, Complete, Equipped, Installing, WithRuntime, WithPair, Runtime
    <2>3. Deployments
        BY DEF Init, Deployments, Deployment, NotDeploying
    <2>4. Calm
        BY DEF Init, Calm, CalmAndAlone, NotDeploying
    <2>5. Pair
        BY InstallationAssumption DEF Init, Pair, Cut
    <2>6. Throttle
        BY ThrottleAtFirst DEF Init, SessionsInit
    <2> QED BY <2>1, <2>2, <2>3, <2>4, <2>5, <2>6 DEF HostInv
<1>2. HostInv /\ [Next]_vars => HostInv'
    <2> SUFFICES ASSUME HostInv, [Next]_vars PROVE HostInv'
        OBVIOUS
    <2>1. Accounts' /\ Deployments'
        BY AccountsInv, DeploymentsInv DEF HostInv
    <2>2. Reached'
        BY InstallReaches, CommandReaches, OthersReach
           DEF HostInv, Next, InstallAgain, PurgeRefused, ResetMissing, Unforced
    <2>3. Calm' /\ Pair' /\ Throttle'
        BY CalmInv, PairInv, ThrottleInv DEF HostInv
    <2> QED BY <2>1, <2>2, <2>3 DEF HostInv
<1> QED BY <1>1, <1>2, PTL DEF Spec

(* Login compares a password and inserts its session later: no more        *)
(* sessions outlive a change of the password than logins were under way,   *)
(* for any number of requests and whatever Login, Logout, ChangePassword,  *)
(* ResetAdmin and purge do in any order.                                   *)
THEOREM FewOutliveAChange == Spec => []FewOutdated
BY HostCorrect, PTL DEF HostInv, Accounts

(* systemctl enable and systemctl restart start the service only where     *)
(* its database, its binaries, a certificate and a key are in place, and   *)
(* these are a pair if their last writers did not get in each other's way  *)
(* or break off; for any number of deployments and failures.               *)
THEOREM StartsOnCompleteHost == Spec => StartsComplete
<1>1. HostInv /\ [Next]_vars =>
          (Started => /\ db = "ready" /\ Equipped
                      /\ cert # 0 /\ key # 0
                      /\ pair = "whole" => cert = key /\ cert # Cut)
    <2>1. HostInv /\ EnableService => Complete
        BY DEF EnableService, HostInv, Reached, WithPair, WithRuntime, Complete
    <2>2. ASSUME HostInv, NEW d \in Deployers, RestartService(d) PROVE Complete
        BY <2>2 DEF RestartService, HostInv, Reached
    <2>3. HostInv /\ pair = "whole" => cert = key /\ cert # Cut
        BY DEF HostInv, Pair
    <2> QED BY <2>1, <2>2, <2>3 DEF Started, Complete
<1> QED BY <1>1, HostCorrect, PTL DEF Spec, StartsComplete

(* recordLoginFailure counts at most the failures that lock an address and *)
(* those of the requests that were let in before, for any number of        *)
(* requests at one time, any limit and any number of addresses.            *)
THEOREM LoginsThrottled == Spec => []FailuresBounded
<1>1. Throttle => FailuresBounded
    BY DEF Throttle, Counted, FailuresBounded
<1> QED BY <1>1, HostCorrect, PTL DEF HostInv

(* writeCertificateFile twice and systemctl restart, undisturbed: the      *)
(* service has the certificate that was read and the key of its issue.     *)
THEOREM DeploymentServes == Spec => DeployServes
<1>1. HostInv =>
          [\A d \in Deployers : RestartService(d) /\ deploys[d].calm =>
              served' = <<deploys[d].cert, deploys[d].cert>>]_vars
    <2> SUFFICES ASSUME HostInv, NEW d \in Deployers, RestartService(d), deploys[d].calm
                 PROVE  served' = <<deploys[d].cert, deploys[d].cert>>
        OBVIOUS
    <2>1. deploys[d].at = "restart" /\ served' = <<cert, key>>
        BY DEF RestartService, Starts
    <2>2. deploys[d].key = deploys[d].cert /\ cert = deploys[d].cert /\ key = deploys[d].key
        BY <2>1 DEF HostInv, Calm, CalmAndAlone
    <2> QED BY <2>1, <2>2
<1> QED BY <1>1, HostCorrect, PTL DEF Spec, DeployServes

=============================================================================
