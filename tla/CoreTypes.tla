------------------------------ MODULE CoreTypes ------------------------------
(***************************************************************************)
(* The OpenAPI definitions of the types of Kubernetes' core group           *)
(* (k8s.io/api/core/v1), as openapi-gen wrote them beside those of this     *)
(* repository (pkg/apis/cma/v1alpha1/openapi_generated.go), one operator    *)
(* for each schema function.  Of a definition: the properties without a     *)
(* reference, the properties that refer to a type (an array or a map of     *)
(* them included) with that type, the required ones, and the list of        *)
(* dependencies the generator put beside them.  References and dependencies *)
(* are written apart in the file and apart here.  Descriptions, formats and *)
(* the scalar types of properties are left out.                             *)
(***************************************************************************)
EXTENDS TLC

\* What a schema function returns.
Definition(fields, references, required, dependencies) ==
  [fields |-> fields, references |-> references, required |-> required,
   dependencies |-> dependencies]

\* A definition that refers to no other type.
Plain(fields, required) == Definition(fields, <<>>, required, <<>>)

schema_k8sio_api_core_v1_AWSElasticBlockStoreVolumeSource ==
  Plain({"volumeID", "fsType", "partition", "readOnly"}, {"volumeID"})
schema_k8sio_api_core_v1_Affinity ==
  Definition({},
             [nodeAffinity |-> "core.NodeAffinity", podAffinity |-> "core.PodAffinity",
              podAntiAffinity |-> "core.PodAntiAffinity"],
             {}, <<"core.NodeAffinity", "core.PodAffinity", "core.PodAntiAffinity">>)
schema_k8sio_api_core_v1_AttachedVolume == Plain({"name", "devicePath"}, {"name", "devicePath"})
schema_k8sio_api_core_v1_AvoidPods ==
  Definition({},
             [preferAvoidPods |-> "core.PreferAvoidPodsEntry"],
             {}, <<"core.PreferAvoidPodsEntry">>)
schema_k8sio_api_core_v1_AzureDiskVolumeSource ==
  Plain({"diskName", "diskURI", "cachingMode", "fsType", "readOnly", "kind"},
        {"diskName", "diskURI"})
schema_k8sio_api_core_v1_AzureFilePersistentVolumeSource ==
  Plain({"secretName", "shareName", "readOnly", "secretNamespace"}, {"secretName", "shareName"})
schema_k8sio_api_core_v1_AzureFileVolumeSource ==
  Plain({"secretName", "shareName", "readOnly"}, {"secretName", "shareName"})
schema_k8sio_api_core_v1_Binding ==
  Definition({"kind", "apiVersion"},
             [metadata |-> "meta.ObjectMeta", target |-> "core.ObjectReference"],
             {"target"}, <<"core.ObjectReference", "meta.ObjectMeta">>)
schema_k8sio_api_core_v1_CSIPersistentVolumeSource ==
  Definition({"driver", "volumeHandle", "readOnly", "fsType", "volumeAttributes"},
             [controllerPublishSecretRef |-> "core.SecretReference",
              nodeStageSecretRef |-> "core.SecretReference",
              nodePublishSecretRef |-> "core.SecretReference"],
             {"driver", "volumeHandle"}, <<"core.SecretReference">>)
schema_k8sio_api_core_v1_Capabilities == Plain({"add", "drop"}, {})
schema_k8sio_api_core_v1_CephFSPersistentVolumeSource ==
  Definition({"monitors", "path", "user", "secretFile", "readOnly"},
             [secretRef |-> "core.SecretReference"],
             {"monitors"}, <<"core.SecretReference">>)
schema_k8sio_api_core_v1_CephFSVolumeSource ==
  Definition({"monitors", "path", "user", "secretFile", "readOnly"},
             [secretRef |-> "core.LocalObjectReference"],
             {"monitors"}, <<"core.LocalObjectReference">>)
schema_k8sio_api_core_v1_CinderPersistentVolumeSource ==
  Definition({"volumeID", "fsType", "readOnly"},
             [secretRef |-> "core.SecretReference"],
             {"volumeID"}, <<"core.SecretReference">>)
schema_k8sio_api_core_v1_CinderVolumeSource ==
  Definition({"volumeID", "fsType", "readOnly"},
             [secretRef |-> "core.LocalObjectReference"],
             {"volumeID"}, <<"core.LocalObjectReference">>)
schema_k8sio_api_core_v1_ClientIPConfig == Plain({"timeoutSeconds"}, {})
schema_k8sio_api_core_v1_ComponentCondition ==
  Plain({"type", "status", "message", "error"}, {"type", "status"})
schema_k8sio_api_core_v1_ComponentStatus ==
  Definition({"kind", "apiVersion"},
             [metadata |-> "meta.ObjectMeta", conditions |-> "core.ComponentCondition"],
             {}, <<"core.ComponentCondition", "meta.ObjectMeta">>)
schema_k8sio_api_core_v1_ComponentStatusList ==
  Definition({"kind", "apiVersion"},
             [metadata |-> "meta.ListMeta", items |-> "core.ComponentStatus"],
             {"items"}, <<"core.ComponentStatus", "meta.ListMeta">>)
schema_k8sio_api_core_v1_ConfigMap ==
  Definition({"kind", "apiVersion", "data", "binaryData"},
             [metadata |-> "meta.ObjectMeta"],
             {}, <<"meta.ObjectMeta">>)
schema_k8sio_api_core_v1_ConfigMapEnvSource == Plain({"name", "optional"}, {})
schema_k8sio_api_core_v1_ConfigMapKeySelector == Plain({"name", "key", "optional"}, {"key"})
schema_k8sio_api_core_v1_ConfigMapList ==
  Definition({"kind", "apiVersion"},
             [metadata |-> "meta.ListMeta", items |-> "core.ConfigMap"],
             {"items"}, <<"core.ConfigMap", "meta.ListMeta">>)
schema_k8sio_api_core_v1_ConfigMapNodeConfigSource ==
  Plain({"namespace", "name", "uid", "resourceVersion", "kubeletConfigKey"},
        {"namespace", "name", "kubeletConfigKey"})
schema_k8sio_api_core_v1_ConfigMapProjection ==
  Definition({"name", "optional"},
             [items |-> "core.KeyToPath"],
             {}, <<"core.KeyToPath">>)
schema_k8sio_api_core_v1_ConfigMapVolumeSource ==
  Definition({"name", "defaultMode", "optional"},
             [items |-> "core.KeyToPath"],
             {}, <<"core.KeyToPath">>)
schema_k8sio_api_core_v1_Container ==
  Definition({"name", "image", "command", "args", "workingDir", "terminationMessagePath",
              "terminationMessagePolicy", "imagePullPolicy", "stdin", "stdinOnce", "tty"},
             [ports |-> "core.ContainerPort", envFrom |-> "core.EnvFromSource",
              env |-> "core.EnvVar", resources |-> "core.ResourceRequirements",
              volumeMounts |-> "core.VolumeMount", volumeDevices |-> "core.VolumeDevice",
              livenessProbe |-> "core.Probe", readinessProbe |-> "core.Probe",
              lifecycle |-> "core.Lifecycle", securityContext |-> "core.SecurityContext"],
             {"name"},
             <<"core.ContainerPort", "core.EnvFromSource", "core.EnvVar", "core.Lifecycle",
               "core.Probe", "core.ResourceRequirements", "core.SecurityContext",
               "core.VolumeDevice", "core.VolumeMount">>)
schema_k8sio_api_core_v1_ContainerImage == Plain({"names", "sizeBytes"}, {"names"})
schema_k8sio_api_core_v1_ContainerPort ==
  Plain({"name", "hostPort", "containerPort", "protocol", "hostIP"}, {"containerPort"})
schema_k8sio_api_core_v1_ContainerState ==
  Definition({},
             [waiting |-> "core.ContainerStateWaiting", running |-> "core.ContainerStateRunning",
              terminated |-> "core.ContainerStateTerminated"],
             {},
             <<"core.ContainerStateRunning", "core.ContainerStateTerminated",
               "core.ContainerStateWaiting">>)
schema_k8sio_api_core_v1_ContainerStateRunning ==
  Definition({},
             [startedAt |-> "meta.Time"],
             {}, <<"meta.Time">>)
schema_k8sio_api_core_v1_ContainerStateTerminated ==
  Definition({"exitCode", "signal", "reason", "message", "containerID"},
             [startedAt |-> "meta.Time", finishedAt |-> "meta.Time"],
             {"exitCode"}, <<"meta.Time">>)
schema_k8sio_api_core_v1_ContainerStateWaiting == Plain({"reason", "message"}, {})
schema_k8sio_api_core_v1_ContainerStatus ==
  Definition({"name", "ready", "restartCount", "image", "imageID", "containerID"},
             [state |-> "core.ContainerState", lastState |-> "core.ContainerState"],
             {"name", "ready", "restartCount", "image", "imageID"}, <<"core.ContainerState">>)
schema_k8sio_api_core_v1_DaemonEndpoint == Plain({"Port"}, {"Port"})
schema_k8sio_api_core_v1_DownwardAPIProjection ==
  Definition({},
             [items |-> "core.DownwardAPIVolumeFile"],
             {}, <<"core.DownwardAPIVolumeFile">>)
schema_k8sio_api_core_v1_DownwardAPIVolumeFile ==
  Definition({"path", "mode"},
             [fieldRef |-> "core.ObjectFieldSelector",
              resourceFieldRef |-> "core.ResourceFieldSelector"],
             {"path"}, <<"core.ObjectFieldSelector", "core.ResourceFieldSelector">>)
schema_k8sio_api_core_v1_DownwardAPIVolumeSource ==
  Definition({"defaultMode"},
             [items |-> "core.DownwardAPIVolumeFile"],
             {}, <<"core.DownwardAPIVolumeFile">>)
schema_k8sio_api_core_v1_EmptyDirVolumeSource ==
  Definition({"medium"},
             [sizeLimit |-> "resource.Quantity"],
             {}, <<"resource.Quantity">>)
schema_k8sio_api_core_v1_EndpointAddress ==
  Definition({"ip", "hostname", "nodeName"},
             [targetRef |-> "core.ObjectReference"],
             {"ip"}, <<"core.ObjectReference">>)
schema_k8sio_api_core_v1_EndpointPort == Plain({"name", "port", "protocol"}, {"port"})
schema_k8sio_api_core_v1_EndpointSubset ==
  Definition({},
             [addresses |-> "core.EndpointAddress", notReadyAddresses |-> "core.EndpointAddress",
              ports |-> "core.EndpointPort"],
             {}, <<"core.EndpointAddress", "core.EndpointPort">>)
schema_k8sio_api_core_v1_Endpoints ==
  Definition({"kind", "apiVersion"},
             [metadata |-> "meta.ObjectMeta", subsets |-> "core.EndpointSubset"],
             {}, <<"core.EndpointSubset", "meta.ObjectMeta">>)
schema_k8sio_api_core_v1_EndpointsList ==
  Definition({"kind", "apiVersion"},
             [metadata |-> "meta.ListMeta", items |-> "core.Endpoints"],
             {"items"}, <<"core.Endpoints", "meta.ListMeta">>)
schema_k8sio_api_core_v1_EnvFromSource ==
  Definition({"prefix"},
             [configMapRef |-> "core.ConfigMapEnvSource", secretRef |-> "core.SecretEnvSource"],
             {}, <<"core.ConfigMapEnvSource", "core.SecretEnvSource">>)
schema_k8sio_api_core_v1_EnvVar ==
  Definition({"name", "value"},
             [valueFrom |-> "core.EnvVarSource"],
             {"name"}, <<"core.EnvVarSource">>)
schema_k8sio_api_core_v1_EnvVarSource ==
  Definition({},
             [fieldRef |-> "core.ObjectFieldSelector",
              resourceFieldRef |-> "core.ResourceFieldSelector",
              configMapKeyRef |-> "core.ConfigMapKeySelector",
              secretKeyRef |-> "core.SecretKeySelector"],
             {},
             <<"core.ConfigMapKeySelector", "core.ObjectFieldSelector",
               "core.ResourceFieldSelector", "core.SecretKeySelector">>)
schema_k8sio_api_core_v1_Event ==
  Definition({"kind", "apiVersion", "reason", "message", "count", "type", "action",
              "reportingComponent", "reportingInstance"},
             [metadata |-> "meta.ObjectMeta", involvedObject |-> "core.ObjectReference",
              source |-> "core.EventSource", firstTimestamp |-> "meta.Time",
              lastTimestamp |-> "meta.Time", eventTime |-> "meta.MicroTime",
              series |-> "core.EventSeries", related |-> "core.ObjectReference"],
             {"metadata", "involvedObject"},
             <<"core.EventSeries", "core.EventSource", "core.ObjectReference", "meta.MicroTime",
               "meta.ObjectMeta", "meta.Time">>)
schema_k8sio_api_core_v1_EventList ==
  Definition({"kind", "apiVersion"},
             [metadata |-> "meta.ListMeta", items |-> "core.Event"],
             {"items"}, <<"core.Event", "meta.ListMeta">>)
schema_k8sio_api_core_v1_EventSeries ==
  Definition({"count", "state"},
             [lastObservedTime |-> "meta.MicroTime"],
             {}, <<"meta.MicroTime">>)
schema_k8sio_api_core_v1_EventSource == Plain({"component", "host"}, {})
schema_k8sio_api_core_v1_ExecAction == Plain({"command"}, {})
schema_k8sio_api_core_v1_FCVolumeSource ==
  Plain({"targetWWNs", "lun", "fsType", "readOnly", "wwids"}, {})
schema_k8sio_api_core_v1_FlexPersistentVolumeSource ==
  Definition({"driver", "fsType", "readOnly", "options"},
             [secretRef |-> "core.SecretReference"],
             {"driver"}, <<"core.SecretReference">>)
schema_k8sio_api_core_v1_FlexVolumeSource ==
  Definition({"driver", "fsType", "readOnly", "options"},
             [secretRef |-> "core.LocalObjectReference"],
             {"driver"}, <<"core.LocalObjectReference">>)
schema_k8sio_api_core_v1_FlockerVolumeSource == Plain({"datasetName", "datasetUUID"}, {})
schema_k8sio_api_core_v1_GCEPersistentDiskVolumeSource ==
  Plain({"pdName", "fsType", "partition", "readOnly"}, {"pdName"})
schema_k8sio_api_core_v1_GitRepoVolumeSource ==
  Plain({"repository", "revision", "directory"}, {"repository"})
schema_k8sio_api_core_v1_GlusterfsPersistentVolumeSource ==
  Plain({"endpoints", "path", "readOnly", "endpointsNamespace"}, {"endpoints", "path"})
schema_k8sio_api_core_v1_GlusterfsVolumeSource ==
  Plain({"endpoints", "path", "readOnly"}, {"endpoints", "path"})
schema_k8sio_api_core_v1_HTTPGetAction ==
  Definition({"path", "host", "scheme"},
             [port |-> "intstr.IntOrString", httpHeaders |-> "core.HTTPHeader"],
             {"port"}, <<"core.HTTPHeader", "intstr.IntOrString">>)
schema_k8sio_api_core_v1_HTTPHeader == Plain({"name", "value"}, {"name", "value"})
schema_k8sio_api_core_v1_Handler ==
  Definition({},
             [exec |-> "core.ExecAction", httpGet |-> "core.HTTPGetAction",
              tcpSocket |-> "core.TCPSocketAction"],
             {}, <<"core.ExecAction", "core.HTTPGetAction", "core.TCPSocketAction">>)
schema_k8sio_api_core_v1_HostAlias == Plain({"ip", "hostnames"}, {})
schema_k8sio_api_core_v1_HostPathVolumeSource == Plain({"path", "type"}, {"path"})
schema_k8sio_api_core_v1_ISCSIPersistentVolumeSource ==
  Definition({"targetPortal", "iqn", "lun", "iscsiInterface", "fsType", "readOnly", "portals",
              "chapAuthDiscovery", "chapAuthSession", "initiatorName"},
             [secretRef |-> "core.SecretReference"],
             {"targetPortal", "iqn", "lun"}, <<"core.SecretReference">>)
schema_k8sio_api_core_v1_ISCSIVolumeSource ==
  Definition({"targetPortal", "iqn", "lun", "iscsiInterface", "fsType", "readOnly", "portals",
              "chapAuthDiscovery", "chapAuthSession", "initiatorName"},
             [secretRef |-> "core.LocalObjectReference"],
             {"targetPortal", "iqn", "lun"}, <<"core.LocalObjectReference">>)
schema_k8sio_api_core_v1_KeyToPath == Plain({"key", "path", "mode"}, {"key", "path"})
schema_k8sio_api_core_v1_Lifecycle ==
  Definition({},
             [postStart |-> "core.Handler", preStop |-> "core.Handler"],
             {}, <<"core.Handler">>)
schema_k8sio_api_core_v1_LimitRange ==
  Definition({"kind", "apiVersion"},
             [metadata |-> "meta.ObjectMeta", spec |-> "core.LimitRangeSpec"],
             {}, <<"core.LimitRangeSpec", "meta.ObjectMeta">>)
schema_k8sio_api_core_v1_LimitRangeItem ==
  Definition({"type"},
             [max |-> "resource.Quantity", min |-> "resource.Quantity",
              default |-> "resource.Quantity", defaultRequest |-> "resource.Quantity",
              maxLimitRequestRatio |-> "resource.Quantity"],
             {}, <<"resource.Quantity">>)
schema_k8sio_api_core_v1_LimitRangeList ==
  Definition({"kind", "apiVersion"},
             [metadata |-> "meta.ListMeta", items |-> "core.LimitRange"],
             {"items"}, <<"core.LimitRange", "meta.ListMeta">>)
schema_k8sio_api_core_v1_LimitRangeSpec ==
  Definition({},
             [limits |-> "core.LimitRangeItem"],
             {"limits"}, <<"core.LimitRangeItem">>)
schema_k8sio_api_core_v1_List ==
  Definition({"kind", "apiVersion"},
             [metadata |-> "meta.ListMeta", items |-> "runtime.RawExtension"],
             {"items"}, <<"meta.ListMeta", "runtime.RawExtension">>)
schema_k8sio_api_core_v1_LoadBalancerIngress == Plain({"ip", "hostname"}, {})
schema_k8sio_api_core_v1_LoadBalancerStatus ==
  Definition({},
             [ingress |-> "core.LoadBalancerIngress"],
             {}, <<"core.LoadBalancerIngress">>)
schema_k8sio_api_core_v1_LocalObjectReference == Plain({"name"}, {})
schema_k8sio_api_core_v1_LocalVolumeSource == Plain({"path", "fsType"}, {"path"})
schema_k8sio_api_core_v1_NFSVolumeSource ==
  Plain({"server", "path", "readOnly"}, {"server", "path"})
schema_k8sio_api_core_v1_Namespace ==
  Definition({"kind", "apiVersion"},
             [metadata |-> "meta.ObjectMeta", spec |-> "core.NamespaceSpec",
              status |-> "core.NamespaceStatus"],
             {}, <<"core.NamespaceSpec", "core.NamespaceStatus", "meta.ObjectMeta">>)
schema_k8sio_api_core_v1_NamespaceList ==
  Definition({"kind", "apiVersion"},
             [metadata |-> "meta.ListMeta", items |-> "core.Namespace"],
             {"items"}, <<"core.Namespace", "meta.ListMeta">>)
schema_k8sio_api_core_v1_NamespaceSpec == Plain({"finalizers"}, {})
schema_k8sio_api_core_v1_NamespaceStatus == Plain({"phase"}, {})
schema_k8sio_api_core_v1_Node ==
  Definition({"kind", "apiVersion"},
             [metadata |-> "meta.ObjectMeta", spec |-> "core.NodeSpec",
              status |-> "core.NodeStatus"],
             {}, <<"core.NodeSpec", "core.NodeStatus", "meta.ObjectMeta">>)
schema_k8sio_api_core_v1_NodeAddress == Plain({"type", "address"}, {"type", "address"})
schema_k8sio_api_core_v1_NodeAffinity ==
  Definition({},
             [requiredDuringSchedulingIgnoredDuringExecution |-> "core.NodeSelector",
              preferredDuringSchedulingIgnoredDuringExecution |-> "core.PreferredSchedulingTerm"],
             {}, <<"core.NodeSelector", "core.PreferredSchedulingTerm">>)
schema_k8sio_api_core_v1_NodeCondition ==
  Definition({"type", "status", "reason", "message"},
             [lastHeartbeatTime |-> "meta.Time", lastTransitionTime |-> "meta.Time"],
             {"type", "status"}, <<"meta.Time">>)
schema_k8sio_api_core_v1_NodeConfigSource ==
  Definition({},
             [configMap |-> "core.ConfigMapNodeConfigSource"],
             {}, <<"core.ConfigMapNodeConfigSource">>)
schema_k8sio_api_core_v1_NodeConfigStatus ==
  Definition({"error"},
             [assigned |-> "core.NodeConfigSource", active |-> "core.NodeConfigSource",
              lastKnownGood |-> "core.NodeConfigSource"],
             {}, <<"core.NodeConfigSource">>)
schema_k8sio_api_core_v1_NodeDaemonEndpoints ==
  Definition({},
             [kubeletEndpoint |-> "core.DaemonEndpoint"],
             {}, <<"core.DaemonEndpoint">>)
schema_k8sio_api_core_v1_NodeList ==
  Definition({"kind", "apiVersion"},
             [metadata |-> "meta.ListMeta", items |-> "core.Node"],
             {"items"}, <<"core.Node", "meta.ListMeta">>)
schema_k8sio_api_core_v1_NodeProxyOptions == Plain({"kind", "apiVersion", "path"}, {})
schema_k8sio_api_core_v1_NodeResources ==
  Definition({},
             [Capacity |-> "resource.Quantity"],
             {"Capacity"}, <<"resource.Quantity">>)
schema_k8sio_api_core_v1_NodeSelector ==
  Definition({},
             [nodeSelectorTerms |-> "core.NodeSelectorTerm"],
             {"nodeSelectorTerms"}, <<"core.NodeSelectorTerm">>)
schema_k8sio_api_core_v1_NodeSelectorRequirement ==
  Plain({"key", "operator", "values"}, {"key", "operator"})
schema_k8sio_api_core_v1_NodeSelectorTerm ==
  Definition({},
             [matchExpressions |-> "core.NodeSelectorRequirement",
              matchFields |-> "core.NodeSelectorRequirement"],
             {}, <<"core.NodeSelectorRequirement">>)
schema_k8sio_api_core_v1_NodeSpec ==
  Definition({"podCIDR", "providerID", "unschedulable", "externalID"},
             [taints |-> "core.Taint", configSource |-> "core.NodeConfigSource"],
             {}, <<"core.NodeConfigSource", "core.Taint">>)
schema_k8sio_api_core_v1_NodeStatus ==
  Definition({"phase", "volumesInUse"},
             [capacity |-> "resource.Quantity", allocatable |-> "resource.Quantity",
              conditions |-> "core.NodeCondition", addresses |-> "core.NodeAddress",
              daemonEndpoints |-> "core.NodeDaemonEndpoints", nodeInfo |-> "core.NodeSystemInfo",
              images |-> "core.ContainerImage", volumesAttached |-> "core.AttachedVolume",
              config |-> "core.NodeConfigStatus"],
             {},
             <<"core.AttachedVolume", "core.ContainerImage", "core.NodeAddress",
               "core.NodeCondition", "core.NodeConfigStatus", "core.NodeDaemonEndpoints",
               "core.NodeSystemInfo", "resource.Quantity">>)
schema_k8sio_api_core_v1_NodeSystemInfo ==
  Plain({"machineID", "systemUUID", "bootID", "kernelVersion", "osImage", "containerRuntimeVersion",
         "kubeletVersion", "kubeProxyVersion", "operatingSystem", "architecture"},
        {"machineID", "systemUUID", "bootID", "kernelVersion", "osImage", "containerRuntimeVersion",
         "kubeletVersion", "kubeProxyVersion", "operatingSystem", "architecture"})
schema_k8sio_api_core_v1_ObjectFieldSelector == Plain({"apiVersion", "fieldPath"}, {"fieldPath"})
schema_k8sio_api_core_v1_ObjectReference ==
  Plain({"kind", "namespace", "name", "uid", "apiVersion", "resourceVersion", "fieldPath"}, {})
schema_k8sio_api_core_v1_PersistentVolume ==
  Definition({"kind", "apiVersion"},
             [metadata |-> "meta.ObjectMeta", spec |-> "core.PersistentVolumeSpec",
              status |-> "core.PersistentVolumeStatus"],
             {}, <<"core.PersistentVolumeSpec", "core.PersistentVolumeStatus", "meta.ObjectMeta">>)
schema_k8sio_api_core_v1_PersistentVolumeClaim ==
  Definition({"kind", "apiVersion"},
             [metadata |-> "meta.ObjectMeta", spec |-> "core.PersistentVolumeClaimSpec",
              status |-> "core.PersistentVolumeClaimStatus"],
             {},
             <<"core.PersistentVolumeClaimSpec", "core.PersistentVolumeClaimStatus",
               "meta.ObjectMeta">>)
schema_k8sio_api_core_v1_PersistentVolumeClaimCondition ==
  Definition({"type", "status", "reason", "message"},
             [lastProbeTime |-> "meta.Time", lastTransitionTime |-> "meta.Time"],
             {"type", "status"}, <<"meta.Time">>)
schema_k8sio_api_core_v1_PersistentVolumeClaimList ==
  Definition({"kind", "apiVersion"},
             [metadata |-> "meta.ListMeta", items |-> "core.PersistentVolumeClaim"],
             {"items"}, <<"core.PersistentVolumeClaim", "meta.ListMeta">>)
schema_k8sio_api_core_v1_PersistentVolumeClaimSpec ==
  Definition({"accessModes", "volumeName", "storageClassName", "volumeMode"},
             [selector |-> "meta.LabelSelector", resources |-> "core.ResourceRequirements",
              dataSource |-> "core.TypedLocalObjectReference"],
             {},
             <<"core.ResourceRequirements", "core.TypedLocalObjectReference",
               "meta.LabelSelector">>)
schema_k8sio_api_core_v1_PersistentVolumeClaimStatus ==
  Definition({"phase", "accessModes"},
             [capacity |-> "resource.Quantity",
              conditions |-> "core.PersistentVolumeClaimCondition"],
             {}, <<"core.PersistentVolumeClaimCondition", "resource.Quantity">>)
schema_k8sio_api_core_v1_PersistentVolumeClaimVolumeSource ==
  Plain({"claimName", "readOnly"}, {"claimName"})
schema_k8sio_api_core_v1_PersistentVolumeList ==
  Definition({"kind", "apiVersion"},
             [metadata |-> "meta.ListMeta", items |-> "core.PersistentVolume"],
             {"items"}, <<"core.PersistentVolume", "meta.ListMeta">>)
schema_k8sio_api_core_v1_PersistentVolumeSource ==
  Definition({},
             [gcePersistentDisk |-> "core.GCEPersistentDiskVolumeSource",
              awsElasticBlockStore |-> "core.AWSElasticBlockStoreVolumeSource",
              hostPath |-> "core.HostPathVolumeSource",
              glusterfs |-> "core.GlusterfsPersistentVolumeSource", nfs |-> "core.NFSVolumeSource",
              rbd |-> "core.RBDPersistentVolumeSource",
              iscsi |-> "core.ISCSIPersistentVolumeSource",
              cinder |-> "core.CinderPersistentVolumeSource",
              cephfs |-> "core.CephFSPersistentVolumeSource", fc |-> "core.FCVolumeSource",
              flocker |-> "core.FlockerVolumeSource",
              flexVolume |-> "core.FlexPersistentVolumeSource",
              azureFile |-> "core.AzureFilePersistentVolumeSource",
              vsphereVolume |-> "core.VsphereVirtualDiskVolumeSource",
              quobyte |-> "core.QuobyteVolumeSource", azureDisk |-> "core.AzureDiskVolumeSource",
              photonPersistentDisk |-> "core.PhotonPersistentDiskVolumeSource",
              portworxVolume |-> "core.PortworxVolumeSource",
              scaleIO |-> "core.ScaleIOPersistentVolumeSource", local |-> "core.LocalVolumeSource",
              storageos |-> "core.StorageOSPersistentVolumeSource",
              csi |-> "core.CSIPersistentVolumeSource"],
             {},
             <<"core.AWSElasticBlockStoreVolumeSource", "core.AzureDiskVolumeSource",
               "core.AzureFilePersistentVolumeSource", "core.CSIPersistentVolumeSource",
               "core.CephFSPersistentVolumeSource", "core.CinderPersistentVolumeSource",
               "core.FCVolumeSource", "core.FlexPersistentVolumeSource", "core.FlockerVolumeSource",
               "core.GCEPersistentDiskVolumeSource", "core.GlusterfsPersistentVolumeSource",
               "core.HostPathVolumeSource", "core.ISCSIPersistentVolumeSource",
               "core.LocalVolumeSource", "core.NFSVolumeSource",
               "core.PhotonPersistentDiskVolumeSource", "core.PortworxVolumeSource",
               "core.QuobyteVolumeSource", "core.RBDPersistentVolumeSource",
               "core.ScaleIOPersistentVolumeSource", "core.StorageOSPersistentVolumeSource",
               "core.VsphereVirtualDiskVolumeSource">>)
schema_k8sio_api_core_v1_PersistentVolumeSpec ==
  Definition({"accessModes", "persistentVolumeReclaimPolicy", "storageClassName", "mountOptions",
              "volumeMode"},
             [capacity |-> "resource.Quantity",
              gcePersistentDisk |-> "core.GCEPersistentDiskVolumeSource",
              awsElasticBlockStore |-> "core.AWSElasticBlockStoreVolumeSource",
              hostPath |-> "core.HostPathVolumeSource",
              glusterfs |-> "core.GlusterfsPersistentVolumeSource", nfs |-> "core.NFSVolumeSource",
              rbd |-> "core.RBDPersistentVolumeSource",
              iscsi |-> "core.ISCSIPersistentVolumeSource",
              cinder |-> "core.CinderPersistentVolumeSource",
              cephfs |-> "core.CephFSPersistentVolumeSource", fc |-> "core.FCVolumeSource",
              flocker |-> "core.FlockerVolumeSource",
              flexVolume |-> "core.FlexPersistentVolumeSource",
              azureFile |-> "core.AzureFilePersistentVolumeSource",
              vsphereVolume |-> "core.VsphereVirtualDiskVolumeSource",
              quobyte |-> "core.QuobyteVolumeSource", azureDisk |-> "core.AzureDiskVolumeSource",
              photonPersistentDisk |-> "core.PhotonPersistentDiskVolumeSource",
              portworxVolume |-> "core.PortworxVolumeSource",
              scaleIO |-> "core.ScaleIOPersistentVolumeSource", local |-> "core.LocalVolumeSource",
              storageos |-> "core.StorageOSPersistentVolumeSource",
              csi |-> "core.CSIPersistentVolumeSource", claimRef |-> "core.ObjectReference",
              nodeAffinity |-> "core.VolumeNodeAffinity"],
             {},
             <<"core.AWSElasticBlockStoreVolumeSource", "core.AzureDiskVolumeSource",
               "core.AzureFilePersistentVolumeSource", "core.CSIPersistentVolumeSource",
               "core.CephFSPersistentVolumeSource", "core.CinderPersistentVolumeSource",
               "core.FCVolumeSource", "core.FlexPersistentVolumeSource", "core.FlockerVolumeSource",
               "core.GCEPersistentDiskVolumeSource", "core.GlusterfsPersistentVolumeSource",
               "core.HostPathVolumeSource", "core.ISCSIPersistentVolumeSource",
               "core.LocalVolumeSource", "core.NFSVolumeSource", "core.ObjectReference",
               "core.PhotonPersistentDiskVolumeSource", "core.PortworxVolumeSource",
               "core.QuobyteVolumeSource", "core.RBDPersistentVolumeSource",
               "core.ScaleIOPersistentVolumeSource", "core.StorageOSPersistentVolumeSource",
               "core.VolumeNodeAffinity", "core.VsphereVirtualDiskVolumeSource",
               "resource.Quantity">>)
schema_k8sio_api_core_v1_PersistentVolumeStatus == Plain({"phase", "message", "reason"}, {})
schema_k8sio_api_core_v1_PhotonPersistentDiskVolumeSource == Plain({"pdID", "fsType"}, {"pdID"})
schema_k8sio_api_core_v1_Pod ==
  Definition({"kind", "apiVersion"},
             [metadata |-> "meta.ObjectMeta", spec |-> "core.PodSpec", status |-> "core.PodStatus"],
             {}, <<"core.PodSpec", "core.PodStatus", "meta.ObjectMeta">>)
schema_k8sio_api_core_v1_PodAffinity ==
  Definition({},
             [requiredDuringSchedulingIgnoredDuringExecution |-> "core.PodAffinityTerm",
              preferredDuringSchedulingIgnoredDuringExecution |-> "core.WeightedPodAffinityTerm"],
             {}, <<"core.PodAffinityTerm", "core.WeightedPodAffinityTerm">>)
schema_k8sio_api_core_v1_PodAffinityTerm ==
  Definition({"namespaces", "topologyKey"},
             [labelSelector |-> "meta.LabelSelector"],
             {"topologyKey"}, <<"meta.LabelSelector">>)
schema_k8sio_api_core_v1_PodAntiAffinity ==
  Definition({},
             [requiredDuringSchedulingIgnoredDuringExecution |-> "core.PodAffinityTerm",
              preferredDuringSchedulingIgnoredDuringExecution |-> "core.WeightedPodAffinityTerm"],
             {}, <<"core.PodAffinityTerm", "core.WeightedPodAffinityTerm">>)
schema_k8sio_api_core_v1_PodAttachOptions ==
  Plain({"kind", "apiVersion", "stdin", "stdout", "stderr", "tty", "container"}, {})
schema_k8sio_api_core_v1_PodCondition ==
  Definition({"type", "status", "reason", "message"},
             [lastProbeTime |-> "meta.Time", lastTransitionTime |-> "meta.Time"],
             {"type", "status"}, <<"meta.Time">>)
schema_k8sio_api_core_v1_PodDNSConfig ==
  Definition({"nameservers", "searches"},
             [options |-> "core.PodDNSConfigOption"],
             {}, <<"core.PodDNSConfigOption">>)
schema_k8sio_api_core_v1_PodDNSConfigOption == Plain({"name", "value"}, {})
schema_k8sio_api_core_v1_PodExecOptions ==
  Plain({"kind", "apiVersion", "stdin", "stdout", "stderr", "tty", "container", "command"},
        {"command"})
schema_k8sio_api_core_v1_PodList ==
  Definition({"kind", "apiVersion"},
             [metadata |-> "meta.ListMeta", items |-> "core.Pod"],
             {"items"}, <<"core.Pod", "meta.ListMeta">>)
schema_k8sio_api_core_v1_PodLogOptions ==
  Definition({"kind", "apiVersion", "container", "follow", "previous", "sinceSeconds", "timestamps",
              "tailLines", "limitBytes"},
             [sinceTime |-> "meta.Time"],
             {}, <<"meta.Time">>)
schema_k8sio_api_core_v1_PodPortForwardOptions == Plain({"kind", "apiVersion", "ports"}, {})
schema_k8sio_api_core_v1_PodProxyOptions == Plain({"kind", "apiVersion", "path"}, {})
schema_k8sio_api_core_v1_PodReadinessGate == Plain({"conditionType"}, {"conditionType"})
schema_k8sio_api_core_v1_PodSecurityContext ==
  Definition({"runAsUser", "runAsGroup", "runAsNonRoot", "supplementalGroups", "fsGroup"},
             [seLinuxOptions |-> "core.SELinuxOptions", sysctls |-> "core.Sysctl"],
             {}, <<"core.SELinuxOptions", "core.Sysctl">>)
schema_k8sio_api_core_v1_PodSignature ==
  Definition({},
             [podController |-> "meta.OwnerReference"],
             {}, <<"meta.OwnerReference">>)
schema_k8sio_api_core_v1_PodSpec ==
  Definition({"restartPolicy", "terminationGracePeriodSeconds", "activeDeadlineSeconds",
              "dnsPolicy", "nodeSelector", "serviceAccountName", "serviceAccount",
              "automountServiceAccountToken", "nodeName", "hostNetwork", "hostPID", "hostIPC",
              "shareProcessNamespace", "hostname", "subdomain", "schedulerName",
              "priorityClassName", "priority", "runtimeClassName", "enableServiceLinks"},
             [volumes |-> "core.Volume", initContainers |-> "core.Container",
              containers |-> "core.Container", securityContext |-> "core.PodSecurityContext",
              imagePullSecrets |-> "core.LocalObjectReference", affinity |-> "core.Affinity",
              tolerations |-> "core.Toleration", hostAliases |-> "core.HostAlias",
              dnsConfig |-> "core.PodDNSConfig", readinessGates |-> "core.PodReadinessGate"],
             {"containers"},
             <<"core.Affinity", "core.Container", "core.HostAlias", "core.LocalObjectReference",
               "core.PodDNSConfig", "core.PodReadinessGate", "core.PodSecurityContext",
               "core.Toleration", "core.Volume">>)
schema_k8sio_api_core_v1_PodStatus ==
  Definition({"phase", "message", "reason", "nominatedNodeName", "hostIP", "podIP", "qosClass"},
             [conditions |-> "core.PodCondition", startTime |-> "meta.Time",
              initContainerStatuses |-> "core.ContainerStatus",
              containerStatuses |-> "core.ContainerStatus"],
             {}, <<"core.ContainerStatus", "core.PodCondition", "meta.Time">>)
schema_k8sio_api_core_v1_PodStatusResult ==
  Definition({"kind", "apiVersion"},
             [metadata |-> "meta.ObjectMeta", status |-> "core.PodStatus"],
             {}, <<"core.PodStatus", "meta.ObjectMeta">>)
schema_k8sio_api_core_v1_PodTemplate ==
  Definition({"kind", "apiVersion"},
             [metadata |-> "meta.ObjectMeta", template |-> "core.PodTemplateSpec"],
             {}, <<"core.PodTemplateSpec", "meta.ObjectMeta">>)
schema_k8sio_api_core_v1_PodTemplateList ==
  Definition({"kind", "apiVersion"},
             [metadata |-> "meta.ListMeta", items |-> "core.PodTemplate"],
             {"items"}, <<"core.PodTemplate", "meta.ListMeta">>)
schema_k8sio_api_core_v1_PodTemplateSpec ==
  Definition({},
             [metadata |-> "meta.ObjectMeta", spec |-> "core.PodSpec"],
             {}, <<"core.PodSpec", "meta.ObjectMeta">>)
schema_k8sio_api_core_v1_PortworxVolumeSource ==
  Plain({"volumeID", "fsType", "readOnly"}, {"volumeID"})
schema_k8sio_api_core_v1_PreferAvoidPodsEntry ==
  Definition({"reason", "message"},
             [podSignature |-> "core.PodSignature", evictionTime |-> "meta.Time"],
             {"podSignature"}, <<"core.PodSignature", "meta.Time">>)
schema_k8sio_api_core_v1_PreferredSchedulingTerm ==
  Definition({"weight"},
             [preference |-> "core.NodeSelectorTerm"],
             {"weight", "preference"}, <<"core.NodeSelectorTerm">>)
schema_k8sio_api_core_v1_Probe ==
  Definition({"initialDelaySeconds", "timeoutSeconds", "periodSeconds", "successThreshold",
              "failureThreshold"},
             [exec |-> "core.ExecAction", httpGet |-> "core.HTTPGetAction",
              tcpSocket |-> "core.TCPSocketAction"],
             {}, <<"core.ExecAction", "core.HTTPGetAction", "core.TCPSocketAction">>)
schema_k8sio_api_core_v1_ProjectedVolumeSource ==
  Definition({"defaultMode"},
             [sources |-> "core.VolumeProjection"],
             {"sources"}, <<"core.VolumeProjection">>)
schema_k8sio_api_core_v1_QuobyteVolumeSource ==
  Plain({"registry", "volume", "readOnly", "user", "group"}, {"registry", "volume"})
schema_k8sio_api_core_v1_RBDPersistentVolumeSource ==
  Definition({"monitors", "image", "fsType", "pool", "user", "keyring", "readOnly"},
             [secretRef |-> "core.SecretReference"],
             {"monitors", "image"}, <<"core.SecretReference">>)
schema_k8sio_api_core_v1_RBDVolumeSource ==
  Definition({"monitors", "image", "fsType", "pool", "user", "keyring", "readOnly"},
             [secretRef |-> "core.LocalObjectReference"],
             {"monitors", "image"}, <<"core.LocalObjectReference">>)
schema_k8sio_api_core_v1_RangeAllocation ==
  Definition({"kind", "apiVersion", "range", "data"},
             [metadata |-> "meta.ObjectMeta"],
             {"range", "data"}, <<"meta.ObjectMeta">>)
schema_k8sio_api_core_v1_ReplicationController ==
  Definition({"kind", "apiVersion"},
             [metadata |-> "meta.ObjectMeta", spec |-> "core.ReplicationControllerSpec",
              status |-> "core.ReplicationControllerStatus"],
             {},
             <<"core.ReplicationControllerSpec", "core.ReplicationControllerStatus",
               "meta.ObjectMeta">>)
schema_k8sio_api_core_v1_ReplicationControllerCondition ==
  Definition({"type", "status", "reason", "message"},
             [lastTransitionTime |-> "meta.Time"],
             {"type", "status"}, <<"meta.Time">>)
schema_k8sio_api_core_v1_ReplicationControllerList ==
  Definition({"kind", "apiVersion"},
             [metadata |-> "meta.ListMeta", items |-> "core.ReplicationController"],
             {"items"}, <<"core.ReplicationController", "meta.ListMeta">>)
schema_k8sio_api_core_v1_ReplicationControllerSpec ==
  Definition({"replicas", "minReadySeconds", "selector"},
             [template |-> "core.PodTemplateSpec"],
             {}, <<"core.PodTemplateSpec">>)
schema_k8sio_api_core_v1_ReplicationControllerStatus ==
  Definition({"replicas", "fullyLabeledReplicas", "readyReplicas", "availableReplicas",
              "observedGeneration"},
             [conditions |-> "core.ReplicationControllerCondition"],
             {"replicas"}, <<"core.ReplicationControllerCondition">>)
schema_k8sio_api_core_v1_ResourceFieldSelector ==
  Definition({"containerName", "resource"},
             [divisor |-> "resource.Quantity"],
             {"resource"}, <<"resource.Quantity">>)
schema_k8sio_api_core_v1_ResourceQuota ==
  Definition({"kind", "apiVersion"},
             [metadata |-> "meta.ObjectMeta", spec |-> "core.ResourceQuotaSpec",
              status |-> "core.ResourceQuotaStatus"],
             {}, <<"core.ResourceQuotaSpec", "core.ResourceQuotaStatus", "meta.ObjectMeta">>)
schema_k8sio_api_core_v1_ResourceQuotaList ==
  Definition({"kind", "apiVersion"},
             [metadata |-> "meta.ListMeta", items |-> "core.ResourceQuota"],
             {"items"}, <<"core.ResourceQuota", "meta.ListMeta">>)
schema_k8sio_api_core_v1_ResourceQuotaSpec ==
  Definition({"scopes"},
             [hard |-> "resource.Quantity", scopeSelector |-> "core.ScopeSelector"],
             {}, <<"core.ScopeSelector", "resource.Quantity">>)
schema_k8sio_api_core_v1_ResourceQuotaStatus ==
  Definition({},
             [hard |-> "resource.Quantity", used |-> "resource.Quantity"],
             {}, <<"resource.Quantity">>)
schema_k8sio_api_core_v1_ResourceRequirements ==
  Definition({},
             [limits |-> "resource.Quantity", requests |-> "resource.Quantity"],
             {}, <<"resource.Quantity">>)
schema_k8sio_api_core_v1_SELinuxOptions == Plain({"user", "role", "type", "level"}, {})
schema_k8sio_api_core_v1_ScaleIOPersistentVolumeSource ==
  Definition({"gateway", "system", "sslEnabled", "protectionDomain", "storagePool", "storageMode",
              "volumeName", "fsType", "readOnly"},
             [secretRef |-> "core.SecretReference"],
             {"gateway", "system", "secretRef"}, <<"core.SecretReference">>)
schema_k8sio_api_core_v1_ScaleIOVolumeSource ==
  Definition({"gateway", "system", "sslEnabled", "protectionDomain", "storagePool", "storageMode",
              "volumeName", "fsType", "readOnly"},
             [secretRef |-> "core.LocalObjectReference"],
             {"gateway", "system", "secretRef"}, <<"core.LocalObjectReference">>)
schema_k8sio_api_core_v1_ScopeSelector ==
  Definition({},
             [matchExpressions |-> "core.ScopedResourceSelectorRequirement"],
             {}, <<"core.ScopedResourceSelectorRequirement">>)
schema_k8sio_api_core_v1_ScopedResourceSelectorRequirement ==
  Plain({"scopeName", "operator", "values"}, {"scopeName", "operator"})
schema_k8sio_api_core_v1_Secret ==
  Definition({"kind", "apiVersion", "data", "stringData", "type"},
             [metadata |-> "meta.ObjectMeta"],
             {}, <<"meta.ObjectMeta">>)
schema_k8sio_api_core_v1_SecretEnvSource == Plain({"name", "optional"}, {})
schema_k8sio_api_core_v1_SecretKeySelector == Plain({"name", "key", "optional"}, {"key"})
schema_k8sio_api_core_v1_SecretList ==
  Definition({"kind", "apiVersion"},
             [metadata |-> "meta.ListMeta", items |-> "core.Secret"],
             {"items"}, <<"core.Secret", "meta.ListMeta">>)
schema_k8sio_api_core_v1_SecretProjection ==
  Definition({"name", "optional"},
             [items |-> "core.KeyToPath"],
             {}, <<"core.KeyToPath">>)
schema_k8sio_api_core_v1_SecretReference == Plain({"name", "namespace"}, {})
schema_k8sio_api_core_v1_SecretVolumeSource ==
  Definition({"secretName", "defaultMode", "optional"},
             [items |-> "core.KeyToPath"],
             {}, <<"core.KeyToPath">>)
schema_k8sio_api_core_v1_SecurityContext ==
  Definition({"privileged", "runAsUser", "runAsGroup", "runAsNonRoot", "readOnlyRootFilesystem",
              "allowPrivilegeEscalation", "procMount"},
             [capabilities |-> "core.Capabilities", seLinuxOptions |-> "core.SELinuxOptions"],
             {}, <<"core.Capabilities", "core.SELinuxOptions">>)
schema_k8sio_api_core_v1_SerializedReference ==
  Definition({"kind", "apiVersion"},
             [reference |-> "core.ObjectReference"],
             {}, <<"core.ObjectReference">>)
schema_k8sio_api_core_v1_Service ==
  Definition({"kind", "apiVersion"},
             [metadata |-> "meta.ObjectMeta", spec |-> "core.ServiceSpec",
              status |-> "core.ServiceStatus"],
             {}, <<"core.ServiceSpec", "core.ServiceStatus", "meta.ObjectMeta">>)
schema_k8sio_api_core_v1_ServiceAccount ==
  Definition({"kind", "apiVersion", "automountServiceAccountToken"},
             [metadata |-> "meta.ObjectMeta", secrets |-> "core.ObjectReference",
              imagePullSecrets |-> "core.LocalObjectReference"],
             {}, <<"core.LocalObjectReference", "core.ObjectReference", "meta.ObjectMeta">>)
schema_k8sio_api_core_v1_ServiceAccountList ==
  Definition({"kind", "apiVersion"},
             [metadata |-> "meta.ListMeta", items |-> "core.ServiceAccount"],
             {"items"}, <<"core.ServiceAccount", "meta.ListMeta">>)
schema_k8sio_api_core_v1_ServiceAccountTokenProjection ==
  Plain({"audience", "expirationSeconds", "path"}, {"path"})
schema_k8sio_api_core_v1_ServiceList ==
  Definition({"kind", "apiVersion"},
             [metadata |-> "meta.ListMeta", items |-> "core.Service"],
             {"items"}, <<"core.Service", "meta.ListMeta">>)
schema_k8sio_api_core_v1_ServicePort ==
  Definition({"name", "protocol", "port", "nodePort"},
             [targetPort |-> "intstr.IntOrString"],
             {"port"}, <<"intstr.IntOrString">>)
schema_k8sio_api_core_v1_ServiceProxyOptions == Plain({"kind", "apiVersion", "path"}, {})
schema_k8sio_api_core_v1_ServiceSpec ==
  Definition({"selector", "clusterIP", "type", "externalIPs", "sessionAffinity", "loadBalancerIP",
              "loadBalancerSourceRanges", "externalName", "externalTrafficPolicy",
              "healthCheckNodePort", "publishNotReadyAddresses"},
             [ports |-> "core.ServicePort", sessionAffinityConfig |-> "core.SessionAffinityConfig"],
             {}, <<"core.ServicePort", "core.SessionAffinityConfig">>)
schema_k8sio_api_core_v1_ServiceStatus ==
  Definition({},
             [loadBalancer |-> "core.LoadBalancerStatus"],
             {}, <<"core.LoadBalancerStatus">>)
schema_k8sio_api_core_v1_SessionAffinityConfig ==
  Definition({},
             [clientIP |-> "core.ClientIPConfig"],
             {}, <<"core.ClientIPConfig">>)
schema_k8sio_api_core_v1_StorageOSPersistentVolumeSource ==
  Definition({"volumeName", "volumeNamespace", "fsType", "readOnly"},
             [secretRef |-> "core.ObjectReference"],
             {}, <<"core.ObjectReference">>)
schema_k8sio_api_core_v1_StorageOSVolumeSource ==
  Definition({"volumeName", "volumeNamespace", "fsType", "readOnly"},
             [secretRef |-> "core.LocalObjectReference"],
             {}, <<"core.LocalObjectReference">>)
schema_k8sio_api_core_v1_Sysctl == Plain({"name", "value"}, {"name", "value"})
schema_k8sio_api_core_v1_TCPSocketAction ==
  Definition({"host"},
             [port |-> "intstr.IntOrString"],
             {"port"}, <<"intstr.IntOrString">>)
schema_k8sio_api_core_v1_Taint ==
  Definition({"key", "value", "effect"},
             [timeAdded |-> "meta.Time"],
             {"key", "effect"}, <<"meta.Time">>)
schema_k8sio_api_core_v1_Toleration ==
  Plain({"key", "operator", "value", "effect", "tolerationSeconds"}, {})
schema_k8sio_api_core_v1_TopologySelectorLabelRequirement ==
  Plain({"key", "values"}, {"key", "values"})
schema_k8sio_api_core_v1_TopologySelectorTerm ==
  Definition({},
             [matchLabelExpressions |-> "core.TopologySelectorLabelRequirement"],
             {}, <<"core.TopologySelectorLabelRequirement">>)
schema_k8sio_api_core_v1_TypedLocalObjectReference ==
  Plain({"apiGroup", "kind", "name"}, {"kind", "name"})
schema_k8sio_api_core_v1_Volume ==
  Definition({"name"},
             [hostPath |-> "core.HostPathVolumeSource", emptyDir |-> "core.EmptyDirVolumeSource",
              gcePersistentDisk |-> "core.GCEPersistentDiskVolumeSource",
              awsElasticBlockStore |-> "core.AWSElasticBlockStoreVolumeSource",
              gitRepo |-> "core.GitRepoVolumeSource", secret |-> "core.SecretVolumeSource",
              nfs |-> "core.NFSVolumeSource", iscsi |-> "core.ISCSIVolumeSource",
              glusterfs |-> "core.GlusterfsVolumeSource",
              persistentVolumeClaim |-> "core.PersistentVolumeClaimVolumeSource",
              rbd |-> "core.RBDVolumeSource", flexVolume |-> "core.FlexVolumeSource",
              cinder |-> "core.CinderVolumeSource", cephfs |-> "core.CephFSVolumeSource",
              flocker |-> "core.FlockerVolumeSource",
              downwardAPI |-> "core.DownwardAPIVolumeSource", fc |-> "core.FCVolumeSource",
              azureFile |-> "core.AzureFileVolumeSource",
              configMap |-> "core.ConfigMapVolumeSource",
              vsphereVolume |-> "core.VsphereVirtualDiskVolumeSource",
              quobyte |-> "core.QuobyteVolumeSource", azureDisk |-> "core.AzureDiskVolumeSource",
              photonPersistentDisk |-> "core.PhotonPersistentDiskVolumeSource",
              projected |-> "core.ProjectedVolumeSource",
              portworxVolume |-> "core.PortworxVolumeSource",
              scaleIO |-> "core.ScaleIOVolumeSource", storageos |-> "core.StorageOSVolumeSource"],
             {"name"},
             <<"core.AWSElasticBlockStoreVolumeSource", "core.AzureDiskVolumeSource",
               "core.AzureFileVolumeSource", "core.CephFSVolumeSource", "core.CinderVolumeSource",
               "core.ConfigMapVolumeSource", "core.DownwardAPIVolumeSource",
               "core.EmptyDirVolumeSource", "core.FCVolumeSource", "core.FlexVolumeSource",
               "core.FlockerVolumeSource", "core.GCEPersistentDiskVolumeSource",
               "core.GitRepoVolumeSource", "core.GlusterfsVolumeSource",
               "core.HostPathVolumeSource", "core.ISCSIVolumeSource", "core.NFSVolumeSource",
               "core.PersistentVolumeClaimVolumeSource", "core.PhotonPersistentDiskVolumeSource",
               "core.PortworxVolumeSource", "core.ProjectedVolumeSource",
               "core.QuobyteVolumeSource", "core.RBDVolumeSource", "core.ScaleIOVolumeSource",
               "core.SecretVolumeSource", "core.StorageOSVolumeSource",
               "core.VsphereVirtualDiskVolumeSource">>)
schema_k8sio_api_core_v1_VolumeDevice == Plain({"name", "devicePath"}, {"name", "devicePath"})
schema_k8sio_api_core_v1_VolumeMount ==
  Plain({"name", "readOnly", "mountPath", "subPath", "mountPropagation"}, {"name", "mountPath"})
schema_k8sio_api_core_v1_VolumeNodeAffinity ==
  Definition({},
             [required |-> "core.NodeSelector"],
             {}, <<"core.NodeSelector">>)
schema_k8sio_api_core_v1_VolumeProjection ==
  Definition({},
             [secret |-> "core.SecretProjection", downwardAPI |-> "core.DownwardAPIProjection",
              configMap |-> "core.ConfigMapProjection",
              serviceAccountToken |-> "core.ServiceAccountTokenProjection"],
             {},
             <<"core.ConfigMapProjection", "core.DownwardAPIProjection", "core.SecretProjection",
               "core.ServiceAccountTokenProjection">>)
schema_k8sio_api_core_v1_VolumeSource ==
  Definition({},
             [hostPath |-> "core.HostPathVolumeSource", emptyDir |-> "core.EmptyDirVolumeSource",
              gcePersistentDisk |-> "core.GCEPersistentDiskVolumeSource",
              awsElasticBlockStore |-> "core.AWSElasticBlockStoreVolumeSource",
              gitRepo |-> "core.GitRepoVolumeSource", secret |-> "core.SecretVolumeSource",
              nfs |-> "core.NFSVolumeSource", iscsi |-> "core.ISCSIVolumeSource",
              glusterfs |-> "core.GlusterfsVolumeSource",
              persistentVolumeClaim |-> "core.PersistentVolumeClaimVolumeSource",
              rbd |-> "core.RBDVolumeSource", flexVolume |-> "core.FlexVolumeSource",
              cinder |-> "core.CinderVolumeSource", cephfs |-> "core.CephFSVolumeSource",
              flocker |-> "core.FlockerVolumeSource",
              downwardAPI |-> "core.DownwardAPIVolumeSource", fc |-> "core.FCVolumeSource",
              azureFile |-> "core.AzureFileVolumeSource",
              configMap |-> "core.ConfigMapVolumeSource",
              vsphereVolume |-> "core.VsphereVirtualDiskVolumeSource",
              quobyte |-> "core.QuobyteVolumeSource", azureDisk |-> "core.AzureDiskVolumeSource",
              photonPersistentDisk |-> "core.PhotonPersistentDiskVolumeSource",
              projected |-> "core.ProjectedVolumeSource",
              portworxVolume |-> "core.PortworxVolumeSource",
              scaleIO |-> "core.ScaleIOVolumeSource", storageos |-> "core.StorageOSVolumeSource"],
             {},
             <<"core.AWSElasticBlockStoreVolumeSource", "core.AzureDiskVolumeSource",
               "core.AzureFileVolumeSource", "core.CephFSVolumeSource", "core.CinderVolumeSource",
               "core.ConfigMapVolumeSource", "core.DownwardAPIVolumeSource",
               "core.EmptyDirVolumeSource", "core.FCVolumeSource", "core.FlexVolumeSource",
               "core.FlockerVolumeSource", "core.GCEPersistentDiskVolumeSource",
               "core.GitRepoVolumeSource", "core.GlusterfsVolumeSource",
               "core.HostPathVolumeSource", "core.ISCSIVolumeSource", "core.NFSVolumeSource",
               "core.PersistentVolumeClaimVolumeSource", "core.PhotonPersistentDiskVolumeSource",
               "core.PortworxVolumeSource", "core.ProjectedVolumeSource",
               "core.QuobyteVolumeSource", "core.RBDVolumeSource", "core.ScaleIOVolumeSource",
               "core.SecretVolumeSource", "core.StorageOSVolumeSource",
               "core.VsphereVirtualDiskVolumeSource">>)
schema_k8sio_api_core_v1_VsphereVirtualDiskVolumeSource ==
  Plain({"volumePath", "fsType", "storagePolicyName", "storagePolicyID"}, {"volumePath"})
schema_k8sio_api_core_v1_WeightedPodAffinityTerm ==
  Definition({"weight"},
             [podAffinityTerm |-> "core.PodAffinityTerm"],
             {"weight", "podAffinityTerm"}, <<"core.PodAffinityTerm">>)
=============================================================================
