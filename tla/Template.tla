------------------------------- MODULE Template -------------------------------
(***************************************************************************)
(* The pods of the DaemonSet: templates/daemonset.yaml, as                 *)
(* create_or_update_daemonset renders it for a mode of platform            *)
(* registration.                                                           *)
(*                                                                         *)
(* A pod is a record of its containers by name, each with the volumes it   *)
(* mounts, its volumes, and where the certificate watcher takes its ID     *)
(* from: the file of option -i or the literal of option --id.              *)
(***************************************************************************)
EXTENDS Functions

Modes == {"Online", "Offline", "External"}

DaemonSetTemplate ==
    [mounts |-> [c \in {"platform-registration", "pck-certs-watcher", "tdx-qgs"} |->
                    CASE c = "platform-registration" -> {"efivars", "platform-info"}
                      [] c = "pck-certs-watcher" -> {"dcap-qcnl-cache", "platform-info"}
                      [] c = "tdx-qgs" -> {"dcap-qcnl-cache", "qgs-socket"}],
     volumes |-> {"dcap-qcnl-cache", "qgs-socket", "platform-info", "efivars"},
     idFrom |-> "file"]

Containers(pod) == DOMAIN pod.mounts

WithoutContainer(pod, container) ==
    [pod EXCEPT !.mounts = Restrict(@, Containers(pod) \ {container})]

WithoutVolume(pod, volume) == [pod EXCEPT !.volumes = @ \ {volume}]

\* The flag is replaced, the mount of the ID file's volume is left.
LiteralIdKeepingMount(pod) == [pod EXCEPT !.idFrom = "literal"]

\* use_node_name_as_literal_id: the flag is replaced, and the mount goes with it.
UseNodeNameAsLiteralId(pod) ==
    [pod EXCEPT !.idFrom = "literal",
                !.mounts["pck-certs-watcher"] = @ \ {"platform-info"}]

\* Nothing is left of the job in External mode, neither the container nor its volumes.
Render(mode) ==
    IF mode # "External" THEN DaemonSetTemplate
    ELSE WithoutVolume(
            UseNodeNameAsLiteralId(
                WithoutVolume(
                    WithoutContainer(DaemonSetTemplate, "platform-registration"),
                    "efivars")),
            "platform-info")

\* The API server's validation: a container mounts only volumes of its pod.
Admissible(pod) == \A c \in Containers(pod) : pod.mounts[c] \subseteq pod.volumes

=============================================================================
