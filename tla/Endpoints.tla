----------------------------- MODULE Endpoints -----------------------------
(***************************************************************************)
(* The calls WireGuardApiClient offers the pages, each with the HTTP       *)
(* method its wrapper passes to request().  The method is all that the     *)
(* client's own control depends on: it decides whether a CSRF token is     *)
(* sent and whether a failed attempt is repeated.                          *)
(***************************************************************************)
NetworkCalls ==
  [getHealth |-> "GET", getMetrics |-> "GET",
   listNetworks |-> "GET", getNetwork |-> "GET", createNetwork |-> "POST",
   updateNetwork |-> "PUT", deleteNetwork |-> "DELETE"]

LocationCalls ==
  [listLocations |-> "GET", getLocation |-> "GET", createLocation |-> "POST",
   updateLocation |-> "PUT", deleteLocation |-> "DELETE"]

DeviceCalls ==
  [listDevices |-> "GET", listDevicePeerLinks |-> "GET",
   upsertDevicePeerLink |-> "POST", deleteDevicePeerLink |-> "DELETE",
   getDevice |-> "GET", createDevice |-> "POST", updateDevice |-> "PUT",
   deleteDevice |-> "DELETE", regenerateDeviceApiKey |-> "POST"]

\* Device configurations and generated keys: a generated key exists only in
\* the answer, except for regenerateDeviceKeys, which also stores it.
ConfigAndKeyCalls ==
  [getDeviceConfig |-> "GET", getAdminDeviceConfig |-> "GET",
   downloadAdminDeviceConfig |-> "GET", getDeviceConfigByApiKey |-> "GET",
   generateWireGuardKeys |-> "POST", generateWireGuardPresharedKey |-> "POST",
   regenerateDeviceKeys |-> "POST"]

ExportAndAuditCalls ==
  [exportNetworks |-> "POST", downloadExport |-> "POST",
   downloadNetworkConfigs |-> "POST", getAuditEvents |-> "GET",
   getAuditStatistics |-> "GET", exportAuditEvents |-> "GET",
   getRetentionInfo |-> "GET", cleanupExpiredEvents |-> "POST"]

RotationCalls ==
  [getRotationEstimate |-> "GET", validateCurrentPassword |-> "POST",
   validatePassword |-> "POST", getPasswordPolicy |-> "GET",
   rotateMasterPassword |-> "POST"]

SessionAndSettingsCalls ==
  [unlockMasterPassword |-> "POST", lockMasterPassword |-> "POST",
   isMasterPasswordUnlocked |-> "GET", getMasterPasswordStatus |-> "GET",
   extendMasterPasswordTTL |-> "POST", refreshMasterPasswordAccess |-> "POST",
   lintNetworkConfig |-> "POST", getOperationalSettings |-> "GET",
   updateOperationalSettings |-> "PATCH"]

\* The table of them all.
Merged(f, g) ==
  [o \in DOMAIN f \cup DOMAIN g |-> IF o \in DOMAIN f THEN f[o] ELSE g[o]]

Method == Merged(NetworkCalls, Merged(LocationCalls, Merged(DeviceCalls,
            Merged(ConfigAndKeyCalls, Merged(ExportAndAuditCalls,
              Merged(RotationCalls, SessionAndSettingsCalls))))))

\* request() repeats a failed attempt only for these methods.
IdempotentMethods == {"GET", "HEAD", "OPTIONS", "PUT", "DELETE"}

Repeats(op) == Method[op] \in IdempotentMethods
Reads(op)   == Method[op] = "GET"
=============================================================================
