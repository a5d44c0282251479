------------------------------ MODULE MCLoader ------------------------------
(***************************************************************************)
(* The loader of a child frame, on the dependency graph of this           *)
(* repository: ExpertInterfaceWorker and every module it needs, with the  *)
(* dependency arrays of their Loader.define calls.  The lib/ scripts are   *)
(* not in the repository; they are taken to define themselves without     *)
(* dependencies.                                                          *)
(***************************************************************************)
EXTENDS Loader

WorkerDeps ==
  [m \in {"ExpertInterfaceWorker", "core/ProxyCommunication", "ZonesWorker",
          "Zone", "core/Overlay", "CSSDefaultTheme", "ZoneLink", "ZoneImage",
          "core/CrossSiteCommunication", "core/ManagedElement", "core/DOMExport",
          "ZoneSelection", "core/EventEmitter", "core/CSSStyle", "lib/jQuery",
          "lib/CryptoJS-AES", "lib/Unicode"} |->
     CASE m = "ExpertInterfaceWorker" ->
            <<"core/ProxyCommunication", "ZonesWorker", "Zone", "core/Overlay",
              "CSSDefaultTheme", "ZoneLink", "ZoneImage">>
       [] m = "core/ProxyCommunication" -> <<"lib/jQuery", "core/EventEmitter">>
       [] m = "ZonesWorker" -> <<"Zone", "core/CrossSiteCommunication">>
       [] m = "Zone" ->
            <<"core/ManagedElement", "lib/jQuery", "core/ProxyCommunication",
              "core/EventEmitter", "core/DOMExport", "ZoneSelection">>
       [] m = "core/Overlay" -> <<"lib/jQuery", "core/ManagedElement">>
       [] m = "CSSDefaultTheme" -> <<"core/CSSStyle">>
       [] m = "ZoneLink" -> <<"Zone", "lib/jQuery", "ZoneSelection">>
       [] m = "ZoneImage" -> <<"Zone", "lib/jQuery">>
       [] m = "core/CrossSiteCommunication" -> <<"core/EventEmitter", "lib/CryptoJS-AES">>
       [] m = "core/ManagedElement" -> <<"core/CSSStyle">>
       [] m = "core/DOMExport" -> <<"lib/Unicode">>
       [] m = "ZoneSelection" -> <<"core/DOMExport", "core/ManagedElement">>
       [] OTHER -> <<>>]

WorkerModules == DOMAIN WorkerDeps
=============================================================================
