---------------------------- MODULE Installation ----------------------------
(***************************************************************************)
(* moebius-agent install and uninstall on Linux (agent/installer) next to  *)
(* the service they set up.  An installation is a sequence of changes to   *)
(* the machine, each of which can fail and end the run; the operator then  *)
(* runs it again.  The unit runs the daemon as the service user, without   *)
(* capabilities, so what the daemon can read is decided by the owners and  *)
(* modes the installer gives to files.                                     *)
(***************************************************************************)
EXTENDS Naturals

CONSTANTS
    Releases,           \* agent binaries
    MaxRuns             \* bound on the number of runs of install and uninstall

ASSUME InstallationAssumption == Releases \cap {"none", "partial"} = {} /\ MaxRuns \in Nat

VARIABLES
    binary, previous,   \* contents of the installed binary and of the backup
    account,            \* the service user and its group exist
    config, hostToken, identity,    \* /etc/moebius-agent holds them
    unit,               \* the unit file is installed
    daemon,             \* "off", "service" (under systemd) or "root" (by hand)
    hostRun,                \* the run of install or uninstall
    runs,               \* how many there have been
    complete,           \* an installation has completed since the last uninstallation
    unsafe              \* the backup failed, or was taken of a partial binary

hostVars == <<binary, previous, account, config, hostToken, identity, unit, daemon, hostRun,
              runs, complete, unsafe>>
hostFiles == <<binary, previous>>
etc == <<config, hostToken, identity>>
history == <<runs, complete, unsafe>>

Partial == "partial"
HostIdle == [pc |-> "idle", release |-> "none", token |-> FALSE, url |-> FALSE, upgrade |-> FALSE, purge |-> FALSE,
             result |-> "none"]
InstallSteps == {"prepare", "backup", "copy", "config", "token", "unit", "start"}
UninstallSteps == {"stop", "remove", "removePrevious", "account", "purge"}

\* Files, accounts and runs have their types; an installation that completed has its binary.
HostTypeOK ==
    /\ binary \in Releases \cup {"none", Partial} /\ previous \in Releases \cup {"none", Partial}
    /\ complete => binary # "none"
    /\ {account, config, hostToken, identity, unit, complete, unsafe} \subseteq BOOLEAN
    /\ daemon \in {"off", "service", "root"} /\ runs \in 0..MaxRuns
    /\ hostRun.pc \in {"idle"} \cup InstallSteps \cup UninstallSteps
    /\ hostRun.release \in Releases \cup {"none"}
    /\ hostRun.result \in {"none", "ok", "failed", "busy"}

HostInit ==
    /\ binary = "none" /\ previous = "none" /\ account = FALSE
    /\ config = FALSE /\ hostToken = FALSE /\ identity = FALSE
    /\ unit = FALSE /\ daemon = "off" /\ hostRun = HostIdle
    /\ runs = 0 /\ complete = FALSE /\ unsafe = FALSE

HostGoto(pc) == hostRun' = [hostRun EXCEPT !.pc = pc]
HostEnd(result) == hostRun' = [HostIdle EXCEPT !.result = result]

-----------------------------------------------------------------------------
(* Install                                                                 *)

\* A binary at its path makes the run an upgrade; otherwise token and URL are required.
HostInstall(release, hasToken, hasURL) ==
    /\ hostRun.pc = "idle" /\ runs < MaxRuns /\ runs' = runs + 1
    /\ LET upgrade == binary # "none"
       IN  IF upgrade \/ (hasToken /\ hasURL)
           THEN hostRun' = [HostIdle EXCEPT !.pc = "prepare", !.release = release, !.token = hasToken,
                                            !.url = hasURL, !.upgrade = upgrade]
           ELSE HostEnd("failed")
    /\ UNCHANGED <<hostFiles, etc, account, unit, daemon, complete, unsafe>>

\* User, group and directories.
Prepare ==
    /\ hostRun.pc = "prepare" /\ HostGoto("backup") /\ account' = TRUE
    /\ UNCHANGED <<hostFiles, etc, unit, daemon, history>>

\* The backup of the binary: its errors are ignored.
Backup ==
    /\ hostRun.pc = "backup" /\ HostGoto("copy")
    /\ IF hostRun.upgrade
       THEN \/ previous' = binary /\ unsafe' = (unsafe \/ binary = Partial)
            \/ previous' \in {previous, Partial} /\ unsafe' = TRUE
       ELSE UNCHANGED <<previous, unsafe>>
    /\ UNCHANGED <<binary, etc, account, unit, daemon, runs, complete>>

\* copyFile truncates and writes the installed file itself, which the system
\* refuses while a process runs it.
HostCopy ==
    /\ hostRun.pc = "copy"
    /\ IF daemon # "off"
       THEN HostEnd("busy") /\ UNCHANGED binary
       ELSE binary' = hostRun.release /\ HostGoto("config")
    /\ UNCHANGED <<previous, etc, account, unit, daemon, history>>

\* The installed binary is the one that runs the installation.
CopyNothing ==
    /\ hostRun.pc = "copy" /\ hostRun.release = binary /\ HostGoto("config")
    /\ UNCHANGED <<hostFiles, etc, account, unit, daemon, history>>

\* The copy breaks off: the file is left as far as it was written.
CopyBreaks ==
    /\ hostRun.pc = "copy" /\ daemon = "off" /\ binary' = Partial /\ HostEnd("failed")
    /\ UNCHANGED <<previous, etc, account, unit, daemon, history>>

\* The configuration is written when there is none and the URL is known.
RewriteConfig ==
    /\ hostRun.pc = "config" /\ HostGoto("token") /\ config' = hostRun.url
    /\ UNCHANGED <<hostFiles, hostToken, identity, account, unit, daemon, history>>
WriteConfig ==
    /\ hostRun.pc = "config" /\ HostGoto("token") /\ config' = (config \/ hostRun.url)
    /\ UNCHANGED <<hostFiles, hostToken, identity, account, unit, daemon, history>>

WriteToken ==
    /\ hostRun.pc = "token" /\ HostGoto("unit") /\ hostToken' = (hostToken \/ hostRun.token)
    /\ UNCHANGED <<hostFiles, config, identity, account, unit, daemon, history>>

WriteUnit ==
    /\ hostRun.pc = "unit" /\ HostGoto("start") /\ unit' = TRUE
    /\ UNCHANGED <<hostFiles, etc, account, daemon, history>>

\* The service is started or restarted, the daemon waited for, and the run
\* succeeds whatever the wait has seen.
HostStart ==
    /\ hostRun.pc = "start" /\ HostEnd("ok")
    /\ complete' = TRUE /\ unsafe' = FALSE
    /\ daemon' = IF daemon = "off" THEN "service" ELSE daemon
    /\ UNCHANGED <<hostFiles, etc, account, unit, runs>>

\* Any other error ends the run, and so does an interruption.
HostFail ==
    /\ hostRun.pc \in InstallSteps \cup UninstallSteps /\ HostEnd("failed")
    /\ UNCHANGED <<hostFiles, etc, account, unit, daemon, history>>

-----------------------------------------------------------------------------
(* Uninstall: each of its steps may fail, and the run goes on.             *)

Uninstall(purge) ==
    /\ hostRun.pc = "idle" /\ runs < MaxRuns /\ runs' = runs + 1
    /\ hostRun' = [HostIdle EXCEPT !.pc = "stop", !.purge = purge]
    /\ complete' = FALSE
    /\ UNCHANGED <<hostFiles, etc, account, unit, daemon, unsafe>>

\* systemctl stop and the removal of the unit: a daemon run by hand goes on.
HostStop ==
    /\ hostRun.pc = "stop" /\ HostGoto("remove") /\ unit' \in {unit, FALSE}
    /\ daemon' \in {daemon, IF daemon = "service" THEN "off" ELSE daemon}
    /\ UNCHANGED <<hostFiles, etc, account, history>>

\* removeIfExists for the binary, then for the backup.
HostRemove ==
    /\ hostRun.pc = "remove" /\ HostGoto("removePrevious") /\ binary' \in {binary, "none"}
    /\ UNCHANGED <<previous, etc, account, unit, daemon, history>>
RemovePrevious ==
    /\ hostRun.pc = "removePrevious" /\ HostGoto("account") /\ previous' \in {previous, "none"}
    /\ UNCHANGED <<binary, etc, account, unit, daemon, history>>

RemoveAccount ==
    /\ hostRun.pc = "account" /\ HostGoto("purge") /\ account' \in {account, FALSE}
    /\ UNCHANGED <<hostFiles, etc, unit, daemon, history>>

Purge ==
    /\ hostRun.pc = "purge" /\ HostEnd("ok")
    /\ IF hostRun.purge
       THEN config' \in {config, FALSE} /\ hostToken' \in {hostToken, FALSE} /\ identity' \in {identity, FALSE}
       ELSE UNCHANGED etc
    /\ UNCHANGED <<hostFiles, account, unit, daemon, history>>

-----------------------------------------------------------------------------
(* The daemon                                                              *)

\* systemd starts the unit again after a failure.
Respawn ==
    /\ unit /\ account /\ daemon = "off" /\ binary \in Releases /\ daemon' = "service"
    /\ UNCHANGED <<hostFiles, etc, account, unit, hostRun, history>>

\* The token, the key and the identity are files of mode 0600 that root owns,
\* or files in a directory that root owns.
MayUse(user) == user = "root"

\* runDaemon up to the client certificate: the daemon enrolls when it has no
\* identity.  Enrollment consumes the token.
HostEnroll ==
    /\ daemon # "off" /\ config /\ hostToken /\ ~identity /\ MayUse(daemon)
    /\ identity' = TRUE /\ hostToken' = FALSE
    /\ UNCHANGED <<hostFiles, config, account, unit, daemon, hostRun, history>>

\* Without a configuration, a token or an identity it can use, it exits.
Exit ==
    /\ daemon # "off"
    /\ ~config \/ ~MayUse(daemon) \/ (~identity /\ ~hostToken)
    /\ daemon' = "off"
    /\ UNCHANGED <<hostFiles, etc, account, unit, hostRun, history>>

\* The operator runs the daemon by hand, and stops it.
RunByHand ==
    /\ daemon = "off" /\ binary \in Releases /\ daemon' = "root"
    /\ UNCHANGED <<hostFiles, etc, account, unit, hostRun, history>>
StopByHand ==
    /\ daemon = "root" /\ daemon' = "off"
    /\ UNCHANGED <<hostFiles, etc, account, unit, hostRun, history>>

-----------------------------------------------------------------------------
InstallStep == \/ Prepare \/ Backup \/ HostCopy \/ CopyNothing \/ CopyBreaks
               \/ WriteConfig \/ WriteToken \/ WriteUnit \/ HostStart
UninstallStep == HostStop \/ HostRemove \/ RemovePrevious \/ RemoveAccount \/ Purge
Daemon == Respawn \/ HostEnroll \/ Exit

HostNext ==
    \/ \E r \in Releases, t, u \in BOOLEAN : HostInstall(r, t, u)
    \/ InstallStep \/ HostFail
    \/ \E p \in BOOLEAN : Uninstall(p)
    \/ UninstallStep
    \/ Daemon \/ RunByHand \/ StopByHand

HostSpec == HostInit /\ [][HostNext]_hostVars

\* The installer runs on, and systemd and the daemon it starts do.
FairSpec == HostSpec /\ WF_hostVars(InstallStep) /\ WF_hostVars(Respawn) /\ WF_hostVars(HostEnroll \/ Exit)

-----------------------------------------------------------------------------
\* While an upgrade replaces the binary, a whole one is kept beside it, unless
\* the backup failed or a run followed one that broke off in the copy.
WayBack == (binary = Partial /\ complete /\ ~unsafe) => previous \in Releases

\* Configuration and identity outlive every installation, failed or not, and
\* every uninstallation but a purge.
KeptUnlessPurged ==
    [][/\ config /\ ~config' => hostRun.purge
       /\ identity /\ ~identity' => hostRun.purge]_hostVars

\* A run that succeeds leaves the whole binary it came with, an account and a
\* unit, whatever runs broke off before it.
SuccessIsWhole ==
    [][(hostRun.pc = "start" /\ hostRun'.result = "ok") => binary = hostRun.release /\ account /\ unit]_hostVars

\* For new installs the server URL is required: a run that succeeds leaves a
\* configuration.
SuccessIsConfigured ==
    [][(hostRun.pc = "start" /\ hostRun'.result = "ok") => config]_hostVars

\* The enrollment token is consumed on the first run of the service.
TokenIsConsumed ==
    [](complete /\ hostToken /\ config /\ daemon = "service" => <>(~hostToken \/ hostRun.pc # "idle"))

\* An existing installation is upgraded in place.
UpgradesInPlace == ~(complete /\ hostRun.result = "busy")

\* Installation: there is a way back from an upgrade, configuration and identity
\* stay unless they are purged, and success means that everything is in place.
InstallationSound == []WayBack /\ KeptUnlessPurged /\ SuccessIsWhole

=============================================================================
