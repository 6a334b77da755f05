----------------------------- MODULE SchemaTypes -----------------------------
(***************************************************************************)
(* The OpenAPI definitions of the types of this repository and of           *)
(* k8s.io/apimachinery (pkg/apis/cma/v1alpha1/openapi_generated.go), in the *)
(* form of CoreTypes, and the map of all definitions by the name of their   *)
(* type.  cma is pkg/apis/cma/v1alpha1; core and meta are the two packages  *)
(* v1 of k8s.io/api and k8s.io/apimachinery.                                *)
(***************************************************************************)
EXTENDS CoreTypes

schema_pkg_apis_cma_v1alpha1_Chart ==
  Definition({"chartName", "chartPayload", "version"},
             [repository |-> "cma.ChartRepository"],
             {"chartName", "repository", "chartPayload", "version"}, <<"cma.ChartRepository">>)
schema_pkg_apis_cma_v1alpha1_ChartRepository == Plain({"name", "url"}, {"name", "url"})
schema_pkg_apis_cma_v1alpha1_Condition ==
  Plain({"type", "reason", "transitionTime"}, {"type", "reason", "transitionTime"})
schema_pkg_apis_cma_v1alpha1_PackageManagerPermissions ==
  Plain({"clusterWide", "namespaces"}, {"clusterWide", "namespaces"})
schema_pkg_apis_cma_v1alpha1_SDSAppBundle ==
  Definition({"kind", "apiVersion"},
             [metadata |-> "meta.ObjectMeta", spec |-> "cma.SDSAppBundleSpec",
              status |-> "cma.SDSAppBundleStatus"],
             {"spec", "status"},
             <<"cma.SDSAppBundleSpec", "cma.SDSAppBundleStatus", "meta.ObjectMeta">>)
schema_pkg_apis_cma_v1alpha1_SDSAppBundleList ==
  Definition({"kind", "apiVersion"},
             [metadata |-> "meta.ListMeta", items |-> "cma.SDSAppBundle"],
             {"items"}, <<"cma.SDSAppBundle", "meta.ListMeta">>)
schema_pkg_apis_cma_v1alpha1_SDSAppBundleSpec ==
  Definition({"name", "namespace", "providers", "k8sversion"},
             [packagemanager |-> "cma.SDSPackageManagerSpec",
              applications |-> "cma.SDSApplicationSpec"],
             {"name", "namespace", "packagemanager", "applications", "providers", "k8sversion"},
             <<"cma.SDSApplicationSpec", "cma.SDSPackageManagerSpec">>)
schema_pkg_apis_cma_v1alpha1_SDSAppBundleStatus ==
  Definition({"phase", "ready"},
             [conditions |-> "cma.Condition"],
             {"phase", "ready", "conditions"}, <<"cma.Condition">>)
schema_pkg_apis_cma_v1alpha1_SDSApplication ==
  Definition({"kind", "apiVersion"},
             [metadata |-> "meta.ObjectMeta", spec |-> "cma.SDSApplicationSpec",
              status |-> "cma.SDSApplicationStatus"],
             {"spec", "status"},
             <<"cma.SDSApplicationSpec", "cma.SDSApplicationStatus", "meta.ObjectMeta">>)
schema_pkg_apis_cma_v1alpha1_SDSApplicationList ==
  Definition({"kind", "apiVersion"},
             [metadata |-> "meta.ListMeta", items |-> "cma.SDSApplication"],
             {"items"}, <<"cma.SDSApplication", "meta.ListMeta">>)
schema_pkg_apis_cma_v1alpha1_SDSApplicationSpec ==
  Definition({"namespace", "name", "values"},
             [packageManager |-> "cma.SDSPackageManagerRef", chart |-> "cma.Chart",
              cluster |-> "cma.SDSClusterRef"],
             {"packageManager", "namespace", "name", "chart", "values", "cluster"},
             <<"cma.Chart", "cma.SDSClusterRef", "cma.SDSPackageManagerRef">>)
schema_pkg_apis_cma_v1alpha1_SDSApplicationStatus ==
  Definition({"phase", "ready"},
             [conditions |-> "cma.Condition"],
             {"phase", "ready", "conditions"}, <<"cma.Condition">>)
schema_pkg_apis_cma_v1alpha1_SDSCluster ==
  Definition({"kind", "apiVersion"},
             [metadata |-> "meta.ObjectMeta", spec |-> "cma.SDSClusterSpec",
              status |-> "cma.SDSClusterStatus"],
             {"spec", "status"},
             <<"cma.SDSClusterSpec", "cma.SDSClusterStatus", "meta.ObjectMeta">>)
schema_pkg_apis_cma_v1alpha1_SDSClusterList ==
  Definition({"kind", "apiVersion"},
             [metadata |-> "meta.ListMeta", items |-> "cma.SDSCluster"],
             {"items"}, <<"cma.SDSCluster", "meta.ListMeta">>)
schema_pkg_apis_cma_v1alpha1_SDSClusterRef == Plain({"name"}, {"name"})

\* Mutants of schema_pkg_apis_cma_v1alpha1_SDSClusterSpec: a new field of a type
\* whose package is not among the generator's inputs; a dependency misspelled.
SpecWithQuantity ==
  Definition({"provider"}, [size |-> "resource.Quantity"], {}, <<"resource.Quantity">>)
SpecMisspelled ==
  Definition({"provider"}, [size |-> "resource.Quantity"], {}, <<"resource.Quantiy">>)

schema_pkg_apis_cma_v1alpha1_SDSClusterSpec == Plain({"provider"}, {})

\* Mutants of schema_pkg_apis_cma_v1alpha1_SDSClusterStatus: the dependency is
\* left out; a field was renamed, but not where it is required.
StatusWithoutDependency ==
  Definition({"phase", "clusterBuilt", "tillerInstalled", "appsInstalled"},
             [conditions |-> "cma.Condition"],
             {"phase", "conditions", "clusterBuilt", "tillerInstalled", "appsInstalled"},
             <<>>)
StatusRenamed ==
  Definition({"phase", "built", "tillerInstalled", "appsInstalled"},
             [conditions |-> "cma.Condition"],
             {"phase", "conditions", "clusterBuilt", "tillerInstalled", "appsInstalled"},
             <<"cma.Condition">>)

schema_pkg_apis_cma_v1alpha1_SDSClusterStatus ==
  Definition({"phase", "clusterBuilt", "tillerInstalled", "appsInstalled"},
             [conditions |-> "cma.Condition"],
             {"phase", "conditions", "clusterBuilt", "tillerInstalled", "appsInstalled"},
             <<"cma.Condition">>)
schema_pkg_apis_cma_v1alpha1_SDSPackageManager ==
  Definition({"kind", "apiVersion"},
             [metadata |-> "meta.ObjectMeta", spec |-> "cma.SDSPackageManagerSpec",
              status |-> "cma.SDSPackageManagerStatus"],
             {"spec", "status"},
             <<"cma.SDSPackageManagerSpec", "cma.SDSPackageManagerStatus", "meta.ObjectMeta">>)
schema_pkg_apis_cma_v1alpha1_SDSPackageManagerList ==
  Definition({"kind", "apiVersion"},
             [metadata |-> "meta.ListMeta", items |-> "cma.SDSPackageManager"],
             {"items"}, <<"cma.SDSPackageManager", "meta.ListMeta">>)
schema_pkg_apis_cma_v1alpha1_SDSPackageManagerRef == Plain({"name"}, {"name"})
schema_pkg_apis_cma_v1alpha1_SDSPackageManagerSpec ==
  Definition({"namespace", "name", "version", "image"},
             [serviceAccount |-> "cma.ServiceAccount",
              permissions |-> "cma.PackageManagerPermissions", cluster |-> "cma.SDSClusterRef"],
             {"namespace", "name", "version", "image", "serviceAccount", "permissions", "cluster"},
             <<"cma.PackageManagerPermissions", "cma.SDSClusterRef", "cma.ServiceAccount">>)
schema_pkg_apis_cma_v1alpha1_SDSPackageManagerStatus ==
  Definition({"phase", "ready"},
             [conditions |-> "cma.Condition"],
             {"phase", "ready", "conditions"}, <<"cma.Condition">>)
schema_pkg_apis_cma_v1alpha1_ServiceAccount == Plain({"name", "namespace"}, {"name", "namespace"})
schema_pkg_apis_meta_v1_APIGroup ==
  Definition({"kind", "apiVersion", "name"},
             [versions |-> "meta.GroupVersionForDiscovery",
              preferredVersion |-> "meta.GroupVersionForDiscovery",
              serverAddressByClientCIDRs |-> "meta.ServerAddressByClientCIDR"],
             {"name", "versions"},
             <<"meta.GroupVersionForDiscovery", "meta.ServerAddressByClientCIDR">>)
schema_pkg_apis_meta_v1_APIGroupList ==
  Definition({"kind", "apiVersion"},
             [groups |-> "meta.APIGroup"],
             {"groups"}, <<"meta.APIGroup">>)
schema_pkg_apis_meta_v1_APIResource ==
  Plain({"name", "singularName", "namespaced", "group", "version", "kind", "verbs", "shortNames",
         "categories"},
        {"name", "singularName", "namespaced", "kind", "verbs"})
schema_pkg_apis_meta_v1_APIResourceList ==
  Definition({"kind", "apiVersion", "groupVersion"},
             [resources |-> "meta.APIResource"],
             {"groupVersion", "resources"}, <<"meta.APIResource">>)
schema_pkg_apis_meta_v1_APIVersions ==
  Definition({"kind", "apiVersion", "versions"},
             [serverAddressByClientCIDRs |-> "meta.ServerAddressByClientCIDR"],
             {"versions", "serverAddressByClientCIDRs"}, <<"meta.ServerAddressByClientCIDR">>)
schema_pkg_apis_meta_v1_DeleteOptions ==
  Definition({"kind", "apiVersion", "gracePeriodSeconds", "orphanDependents", "propagationPolicy"},
             [preconditions |-> "meta.Preconditions"],
             {}, <<"meta.Preconditions">>)
schema_pkg_apis_meta_v1_Duration == Plain({"Duration"}, {"Duration"})
schema_pkg_apis_meta_v1_ExportOptions ==
  Plain({"kind", "apiVersion", "export", "exact"}, {"export", "exact"})
schema_pkg_apis_meta_v1_GetOptions ==
  Plain({"kind", "apiVersion", "resourceVersion", "includeUninitialized"}, {})
schema_pkg_apis_meta_v1_GroupKind == Plain({"group", "kind"}, {"group", "kind"})
schema_pkg_apis_meta_v1_GroupResource == Plain({"group", "resource"}, {"group", "resource"})
schema_pkg_apis_meta_v1_GroupVersion == Plain({"group", "version"}, {"group", "version"})
schema_pkg_apis_meta_v1_GroupVersionForDiscovery ==
  Plain({"groupVersion", "version"}, {"groupVersion", "version"})
schema_pkg_apis_meta_v1_GroupVersionKind ==
  Plain({"group", "version", "kind"}, {"group", "version", "kind"})
schema_pkg_apis_meta_v1_GroupVersionResource ==
  Plain({"group", "version", "resource"}, {"group", "version", "resource"})
schema_pkg_apis_meta_v1_Initializer == Plain({"name"}, {"name"})
schema_pkg_apis_meta_v1_Initializers ==
  Definition({},
             [pending |-> "meta.Initializer", result |-> "meta.Status"],
             {"pending"}, <<"meta.Initializer", "meta.Status">>)
schema_pkg_apis_meta_v1_InternalEvent ==
  Definition({"Type"},
             [Object |-> "runtime.Object"],
             {"Type", "Object"}, <<"runtime.Object">>)
schema_pkg_apis_meta_v1_LabelSelector ==
  Definition({"matchLabels"},
             [matchExpressions |-> "meta.LabelSelectorRequirement"],
             {}, <<"meta.LabelSelectorRequirement">>)
schema_pkg_apis_meta_v1_LabelSelectorRequirement ==
  Plain({"key", "operator", "values"}, {"key", "operator"})
schema_pkg_apis_meta_v1_List ==
  Definition({"kind", "apiVersion"},
             [metadata |-> "meta.ListMeta", items |-> "runtime.RawExtension"],
             {"items"}, <<"meta.ListMeta", "runtime.RawExtension">>)
schema_pkg_apis_meta_v1_ListMeta == Plain({"selfLink", "resourceVersion", "continue"}, {})
schema_pkg_apis_meta_v1_ListOptions ==
  Plain({"kind", "apiVersion", "labelSelector", "fieldSelector", "includeUninitialized", "watch",
         "resourceVersion", "timeoutSeconds", "limit", "continue"},
        {})
schema_pkg_apis_meta_v1_MicroTime == Plain({}, {})
schema_pkg_apis_meta_v1_ObjectMeta ==
  Definition({"name", "generateName", "namespace", "selfLink", "uid", "resourceVersion",
              "generation", "deletionGracePeriodSeconds", "labels", "annotations", "finalizers",
              "clusterName"},
             [creationTimestamp |-> "meta.Time", deletionTimestamp |-> "meta.Time",
              ownerReferences |-> "meta.OwnerReference", initializers |-> "meta.Initializers"],
             {}, <<"meta.Initializers", "meta.OwnerReference", "meta.Time">>)
schema_pkg_apis_meta_v1_OwnerReference ==
  Plain({"apiVersion", "kind", "name", "uid", "controller", "blockOwnerDeletion"},
        {"apiVersion", "kind", "name", "uid"})
schema_pkg_apis_meta_v1_Patch == Plain({}, {})
schema_pkg_apis_meta_v1_Preconditions == Plain({"uid"}, {})
schema_pkg_apis_meta_v1_RootPaths == Plain({"paths"}, {"paths"})
schema_pkg_apis_meta_v1_ServerAddressByClientCIDR ==
  Plain({"clientCIDR", "serverAddress"}, {"clientCIDR", "serverAddress"})
schema_pkg_apis_meta_v1_Status ==
  Definition({"kind", "apiVersion", "status", "message", "reason", "code"},
             [metadata |-> "meta.ListMeta", details |-> "meta.StatusDetails"],
             {}, <<"meta.ListMeta", "meta.StatusDetails">>)
schema_pkg_apis_meta_v1_StatusCause == Plain({"reason", "message", "field"}, {})
schema_pkg_apis_meta_v1_StatusDetails ==
  Definition({"name", "group", "kind", "uid", "retryAfterSeconds"},
             [causes |-> "meta.StatusCause"],
             {}, <<"meta.StatusCause">>)
schema_pkg_apis_meta_v1_Time == Plain({}, {})
schema_pkg_apis_meta_v1_Timestamp == Plain({"seconds", "nanos"}, {"seconds", "nanos"})
schema_pkg_apis_meta_v1_TypeMeta == Plain({"kind", "apiVersion"}, {})
schema_pkg_apis_meta_v1_WatchEvent ==
  Definition({"type"},
             [object |-> "runtime.RawExtension"],
             {"type", "object"}, <<"runtime.RawExtension">>)

\* The definitions by the name of their type.
GetOpenAPIDefinitions ==
  "cma.Chart" :> schema_pkg_apis_cma_v1alpha1_Chart
  @@ "cma.ChartRepository" :> schema_pkg_apis_cma_v1alpha1_ChartRepository
  @@ "cma.Condition" :> schema_pkg_apis_cma_v1alpha1_Condition
  @@ "cma.PackageManagerPermissions" :> schema_pkg_apis_cma_v1alpha1_PackageManagerPermissions
  @@ "cma.SDSAppBundle" :> schema_pkg_apis_cma_v1alpha1_SDSAppBundle
  @@ "cma.SDSAppBundleList" :> schema_pkg_apis_cma_v1alpha1_SDSAppBundleList
  @@ "cma.SDSAppBundleSpec" :> schema_pkg_apis_cma_v1alpha1_SDSAppBundleSpec
  @@ "cma.SDSAppBundleStatus" :> schema_pkg_apis_cma_v1alpha1_SDSAppBundleStatus
  @@ "cma.SDSApplication" :> schema_pkg_apis_cma_v1alpha1_SDSApplication
  @@ "cma.SDSApplicationList" :> schema_pkg_apis_cma_v1alpha1_SDSApplicationList
  @@ "cma.SDSApplicationSpec" :> schema_pkg_apis_cma_v1alpha1_SDSApplicationSpec
  @@ "cma.SDSApplicationStatus" :> schema_pkg_apis_cma_v1alpha1_SDSApplicationStatus
  @@ "cma.SDSCluster" :> schema_pkg_apis_cma_v1alpha1_SDSCluster
  @@ "cma.SDSClusterList" :> schema_pkg_apis_cma_v1alpha1_SDSClusterList
  @@ "cma.SDSClusterRef" :> schema_pkg_apis_cma_v1alpha1_SDSClusterRef
  @@ "cma.SDSClusterSpec" :> schema_pkg_apis_cma_v1alpha1_SDSClusterSpec
  @@ "cma.SDSClusterStatus" :> schema_pkg_apis_cma_v1alpha1_SDSClusterStatus
  @@ "cma.SDSPackageManager" :> schema_pkg_apis_cma_v1alpha1_SDSPackageManager
  @@ "cma.SDSPackageManagerList" :> schema_pkg_apis_cma_v1alpha1_SDSPackageManagerList
  @@ "cma.SDSPackageManagerRef" :> schema_pkg_apis_cma_v1alpha1_SDSPackageManagerRef
  @@ "cma.SDSPackageManagerSpec" :> schema_pkg_apis_cma_v1alpha1_SDSPackageManagerSpec
  @@ "cma.SDSPackageManagerStatus" :> schema_pkg_apis_cma_v1alpha1_SDSPackageManagerStatus
  @@ "cma.ServiceAccount" :> schema_pkg_apis_cma_v1alpha1_ServiceAccount
  @@ "core.AWSElasticBlockStoreVolumeSource" :> schema_k8sio_api_core_v1_AWSElasticBlockStoreVolumeSource
  @@ "core.Affinity" :> schema_k8sio_api_core_v1_Affinity
  @@ "core.AttachedVolume" :> schema_k8sio_api_core_v1_AttachedVolume
  @@ "core.AvoidPods" :> schema_k8sio_api_core_v1_AvoidPods
  @@ "core.AzureDiskVolumeSource" :> schema_k8sio_api_core_v1_AzureDiskVolumeSource
  @@ "core.AzureFilePersistentVolumeSource" :> schema_k8sio_api_core_v1_AzureFilePersistentVolumeSource
  @@ "core.AzureFileVolumeSource" :> schema_k8sio_api_core_v1_AzureFileVolumeSource
  @@ "core.Binding" :> schema_k8sio_api_core_v1_Binding
  @@ "core.CSIPersistentVolumeSource" :> schema_k8sio_api_core_v1_CSIPersistentVolumeSource
  @@ "core.Capabilities" :> schema_k8sio_api_core_v1_Capabilities
  @@ "core.CephFSPersistentVolumeSource" :> schema_k8sio_api_core_v1_CephFSPersistentVolumeSource
  @@ "core.CephFSVolumeSource" :> schema_k8sio_api_core_v1_CephFSVolumeSource
  @@ "core.CinderPersistentVolumeSource" :> schema_k8sio_api_core_v1_CinderPersistentVolumeSource
  @@ "core.CinderVolumeSource" :> schema_k8sio_api_core_v1_CinderVolumeSource
  @@ "core.ClientIPConfig" :> schema_k8sio_api_core_v1_ClientIPConfig
  @@ "core.ComponentCondition" :> schema_k8sio_api_core_v1_ComponentCondition
  @@ "core.ComponentStatus" :> schema_k8sio_api_core_v1_ComponentStatus
  @@ "core.ComponentStatusList" :> schema_k8sio_api_core_v1_ComponentStatusList
  @@ "core.ConfigMap" :> schema_k8sio_api_core_v1_ConfigMap
  @@ "core.ConfigMapEnvSource" :> schema_k8sio_api_core_v1_ConfigMapEnvSource
  @@ "core.ConfigMapKeySelector" :> schema_k8sio_api_core_v1_ConfigMapKeySelector
  @@ "core.ConfigMapList" :> schema_k8sio_api_core_v1_ConfigMapList
  @@ "core.ConfigMapNodeConfigSource" :> schema_k8sio_api_core_v1_ConfigMapNodeConfigSource
  @@ "core.ConfigMapProjection" :> schema_k8sio_api_core_v1_ConfigMapProjection
  @@ "core.ConfigMapVolumeSource" :> schema_k8sio_api_core_v1_ConfigMapVolumeSource
  @@ "core.Container" :> schema_k8sio_api_core_v1_Container
  @@ "core.ContainerImage" :> schema_k8sio_api_core_v1_ContainerImage
  @@ "core.ContainerPort" :> schema_k8sio_api_core_v1_ContainerPort
  @@ "core.ContainerState" :> schema_k8sio_api_core_v1_ContainerState
  @@ "core.ContainerStateRunning" :> schema_k8sio_api_core_v1_ContainerStateRunning
  @@ "core.ContainerStateTerminated" :> schema_k8sio_api_core_v1_ContainerStateTerminated
  @@ "core.ContainerStateWaiting" :> schema_k8sio_api_core_v1_ContainerStateWaiting
  @@ "core.ContainerStatus" :> schema_k8sio_api_core_v1_ContainerStatus
  @@ "core.DaemonEndpoint" :> schema_k8sio_api_core_v1_DaemonEndpoint
  @@ "core.DownwardAPIProjection" :> schema_k8sio_api_core_v1_DownwardAPIProjection
  @@ "core.DownwardAPIVolumeFile" :> schema_k8sio_api_core_v1_DownwardAPIVolumeFile
  @@ "core.DownwardAPIVolumeSource" :> schema_k8sio_api_core_v1_DownwardAPIVolumeSource
  @@ "core.EmptyDirVolumeSource" :> schema_k8sio_api_core_v1_EmptyDirVolumeSource
  @@ "core.EndpointAddress" :> schema_k8sio_api_core_v1_EndpointAddress
  @@ "core.EndpointPort" :> schema_k8sio_api_core_v1_EndpointPort
  @@ "core.EndpointSubset" :> schema_k8sio_api_core_v1_EndpointSubset
  @@ "core.Endpoints" :> schema_k8sio_api_core_v1_Endpoints
  @@ "core.EndpointsList" :> schema_k8sio_api_core_v1_EndpointsList
  @@ "core.EnvFromSource" :> schema_k8sio_api_core_v1_EnvFromSource
  @@ "core.EnvVar" :> schema_k8sio_api_core_v1_EnvVar
  @@ "core.EnvVarSource" :> schema_k8sio_api_core_v1_EnvVarSource
  @@ "core.Event" :> schema_k8sio_api_core_v1_Event
  @@ "core.EventList" :> schema_k8sio_api_core_v1_EventList
  @@ "core.EventSeries" :> schema_k8sio_api_core_v1_EventSeries
  @@ "core.EventSource" :> schema_k8sio_api_core_v1_EventSource
  @@ "core.ExecAction" :> schema_k8sio_api_core_v1_ExecAction
  @@ "core.FCVolumeSource" :> schema_k8sio_api_core_v1_FCVolumeSource
  @@ "core.FlexPersistentVolumeSource" :> schema_k8sio_api_core_v1_FlexPersistentVolumeSource
  @@ "core.FlexVolumeSource" :> schema_k8sio_api_core_v1_FlexVolumeSource
  @@ "core.FlockerVolumeSource" :> schema_k8sio_api_core_v1_FlockerVolumeSource
  @@ "core.GCEPersistentDiskVolumeSource" :> schema_k8sio_api_core_v1_GCEPersistentDiskVolumeSource
  @@ "core.GitRepoVolumeSource" :> schema_k8sio_api_core_v1_GitRepoVolumeSource
  @@ "core.GlusterfsPersistentVolumeSource" :> schema_k8sio_api_core_v1_GlusterfsPersistentVolumeSource
  @@ "core.GlusterfsVolumeSource" :> schema_k8sio_api_core_v1_GlusterfsVolumeSource
  @@ "core.HTTPGetAction" :> schema_k8sio_api_core_v1_HTTPGetAction
  @@ "core.HTTPHeader" :> schema_k8sio_api_core_v1_HTTPHeader
  @@ "core.Handler" :> schema_k8sio_api_core_v1_Handler
  @@ "core.HostAlias" :> schema_k8sio_api_core_v1_HostAlias
  @@ "core.HostPathVolumeSource" :> schema_k8sio_api_core_v1_HostPathVolumeSource
  @@ "core.ISCSIPersistentVolumeSource" :> schema_k8sio_api_core_v1_ISCSIPersistentVolumeSource
  @@ "core.ISCSIVolumeSource" :> schema_k8sio_api_core_v1_ISCSIVolumeSource
  @@ "core.KeyToPath" :> schema_k8sio_api_core_v1_KeyToPath
  @@ "core.Lifecycle" :> schema_k8sio_api_core_v1_Lifecycle
  @@ "core.LimitRange" :> schema_k8sio_api_core_v1_LimitRange
  @@ "core.LimitRangeItem" :> schema_k8sio_api_core_v1_LimitRangeItem
  @@ "core.LimitRangeList" :> schema_k8sio_api_core_v1_LimitRangeList
  @@ "core.LimitRangeSpec" :> schema_k8sio_api_core_v1_LimitRangeSpec
  @@ "core.List" :> schema_k8sio_api_core_v1_List
  @@ "core.LoadBalancerIngress" :> schema_k8sio_api_core_v1_LoadBalancerIngress
  @@ "core.LoadBalancerStatus" :> schema_k8sio_api_core_v1_LoadBalancerStatus
  @@ "core.LocalObjectReference" :> schema_k8sio_api_core_v1_LocalObjectReference
  @@ "core.LocalVolumeSource" :> schema_k8sio_api_core_v1_LocalVolumeSource
  @@ "core.NFSVolumeSource" :> schema_k8sio_api_core_v1_NFSVolumeSource
  @@ "core.Namespace" :> schema_k8sio_api_core_v1_Namespace
  @@ "core.NamespaceList" :> schema_k8sio_api_core_v1_NamespaceList
  @@ "core.NamespaceSpec" :> schema_k8sio_api_core_v1_NamespaceSpec
  @@ "core.NamespaceStatus" :> schema_k8sio_api_core_v1_NamespaceStatus
  @@ "core.Node" :> schema_k8sio_api_core_v1_Node
  @@ "core.NodeAddress" :> schema_k8sio_api_core_v1_NodeAddress
  @@ "core.NodeAffinity" :> schema_k8sio_api_core_v1_NodeAffinity
  @@ "core.NodeCondition" :> schema_k8sio_api_core_v1_NodeCondition
  @@ "core.NodeConfigSource" :> schema_k8sio_api_core_v1_NodeConfigSource
  @@ "core.NodeConfigStatus" :> schema_k8sio_api_core_v1_NodeConfigStatus
  @@ "core.NodeDaemonEndpoints" :> schema_k8sio_api_core_v1_NodeDaemonEndpoints
  @@ "core.NodeList" :> schema_k8sio_api_core_v1_NodeList
  @@ "core.NodeProxyOptions" :> schema_k8sio_api_core_v1_NodeProxyOptions
  @@ "core.NodeResources" :> schema_k8sio_api_core_v1_NodeResources
  @@ "core.NodeSelector" :> schema_k8sio_api_core_v1_NodeSelector
  @@ "core.NodeSelectorRequirement" :> schema_k8sio_api_core_v1_NodeSelectorRequirement
  @@ "core.NodeSelectorTerm" :> schema_k8sio_api_core_v1_NodeSelectorTerm
  @@ "core.NodeSpec" :> schema_k8sio_api_core_v1_NodeSpec
  @@ "core.NodeStatus" :> schema_k8sio_api_core_v1_NodeStatus
  @@ "core.NodeSystemInfo" :> schema_k8sio_api_core_v1_NodeSystemInfo
  @@ "core.ObjectFieldSelector" :> schema_k8sio_api_core_v1_ObjectFieldSelector
  @@ "core.ObjectReference" :> schema_k8sio_api_core_v1_ObjectReference
  @@ "core.PersistentVolume" :> schema_k8sio_api_core_v1_PersistentVolume
  @@ "core.PersistentVolumeClaim" :> schema_k8sio_api_core_v1_PersistentVolumeClaim
  @@ "core.PersistentVolumeClaimCondition" :> schema_k8sio_api_core_v1_PersistentVolumeClaimCondition
  @@ "core.PersistentVolumeClaimList" :> schema_k8sio_api_core_v1_PersistentVolumeClaimList
  @@ "core.PersistentVolumeClaimSpec" :> schema_k8sio_api_core_v1_PersistentVolumeClaimSpec
  @@ "core.PersistentVolumeClaimStatus" :> schema_k8sio_api_core_v1_PersistentVolumeClaimStatus
  @@ "core.PersistentVolumeClaimVolumeSource" :> schema_k8sio_api_core_v1_PersistentVolumeClaimVolumeSource
  @@ "core.PersistentVolumeList" :> schema_k8sio_api_core_v1_PersistentVolumeList
  @@ "core.PersistentVolumeSource" :> schema_k8sio_api_core_v1_PersistentVolumeSource
  @@ "core.PersistentVolumeSpec" :> schema_k8sio_api_core_v1_PersistentVolumeSpec
  @@ "core.PersistentVolumeStatus" :> schema_k8sio_api_core_v1_PersistentVolumeStatus
  @@ "core.PhotonPersistentDiskVolumeSource" :> schema_k8sio_api_core_v1_PhotonPersistentDiskVolumeSource
  @@ "core.Pod" :> schema_k8sio_api_core_v1_Pod
  @@ "core.PodAffinity" :> schema_k8sio_api_core_v1_PodAffinity
  @@ "core.PodAffinityTerm" :> schema_k8sio_api_core_v1_PodAffinityTerm
  @@ "core.PodAntiAffinity" :> schema_k8sio_api_core_v1_PodAntiAffinity
  @@ "core.PodAttachOptions" :> schema_k8sio_api_core_v1_PodAttachOptions
  @@ "core.PodCondition" :> schema_k8sio_api_core_v1_PodCondition
  @@ "core.PodDNSConfig" :> schema_k8sio_api_core_v1_PodDNSConfig
  @@ "core.PodDNSConfigOption" :> schema_k8sio_api_core_v1_PodDNSConfigOption
  @@ "core.PodExecOptions" :> schema_k8sio_api_core_v1_PodExecOptions
  @@ "core.PodList" :> schema_k8sio_api_core_v1_PodList
  @@ "core.PodLogOptions" :> schema_k8sio_api_core_v1_PodLogOptions
  @@ "core.PodPortForwardOptions" :> schema_k8sio_api_core_v1_PodPortForwardOptions
  @@ "core.PodProxyOptions" :> schema_k8sio_api_core_v1_PodProxyOptions
  @@ "core.PodReadinessGate" :> schema_k8sio_api_core_v1_PodReadinessGate
  @@ "core.PodSecurityContext" :> schema_k8sio_api_core_v1_PodSecurityContext
  @@ "core.PodSignature" :> schema_k8sio_api_core_v1_PodSignature
  @@ "core.PodSpec" :> schema_k8sio_api_core_v1_PodSpec
  @@ "core.PodStatus" :> schema_k8sio_api_core_v1_PodStatus
  @@ "core.PodStatusResult" :> schema_k8sio_api_core_v1_PodStatusResult
  @@ "core.PodTemplate" :> schema_k8sio_api_core_v1_PodTemplate
  @@ "core.PodTemplateList" :> schema_k8sio_api_core_v1_PodTemplateList
  @@ "core.PodTemplateSpec" :> schema_k8sio_api_core_v1_PodTemplateSpec
  @@ "core.PortworxVolumeSource" :> schema_k8sio_api_core_v1_PortworxVolumeSource
  @@ "core.PreferAvoidPodsEntry" :> schema_k8sio_api_core_v1_PreferAvoidPodsEntry
  @@ "core.PreferredSchedulingTerm" :> schema_k8sio_api_core_v1_PreferredSchedulingTerm
  @@ "core.Probe" :> schema_k8sio_api_core_v1_Probe
  @@ "core.ProjectedVolumeSource" :> schema_k8sio_api_core_v1_ProjectedVolumeSource
  @@ "core.QuobyteVolumeSource" :> schema_k8sio_api_core_v1_QuobyteVolumeSource
  @@ "core.RBDPersistentVolumeSource" :> schema_k8sio_api_core_v1_RBDPersistentVolumeSource
  @@ "core.RBDVolumeSource" :> schema_k8sio_api_core_v1_RBDVolumeSource
  @@ "core.RangeAllocation" :> schema_k8sio_api_core_v1_RangeAllocation
  @@ "core.ReplicationController" :> schema_k8sio_api_core_v1_ReplicationController
  @@ "core.ReplicationControllerCondition" :> schema_k8sio_api_core_v1_ReplicationControllerCondition
  @@ "core.ReplicationControllerList" :> schema_k8sio_api_core_v1_ReplicationControllerList
  @@ "core.ReplicationControllerSpec" :> schema_k8sio_api_core_v1_ReplicationControllerSpec
  @@ "core.ReplicationControllerStatus" :> schema_k8sio_api_core_v1_ReplicationControllerStatus
  @@ "core.ResourceFieldSelector" :> schema_k8sio_api_core_v1_ResourceFieldSelector
  @@ "core.ResourceQuota" :> schema_k8sio_api_core_v1_ResourceQuota
  @@ "core.ResourceQuotaList" :> schema_k8sio_api_core_v1_ResourceQuotaList
  @@ "core.ResourceQuotaSpec" :> schema_k8sio_api_core_v1_ResourceQuotaSpec
  @@ "core.ResourceQuotaStatus" :> schema_k8sio_api_core_v1_ResourceQuotaStatus
  @@ "core.ResourceRequirements" :> schema_k8sio_api_core_v1_ResourceRequirements
  @@ "core.SELinuxOptions" :> schema_k8sio_api_core_v1_SELinuxOptions
  @@ "core.ScaleIOPersistentVolumeSource" :> schema_k8sio_api_core_v1_ScaleIOPersistentVolumeSource
  @@ "core.ScaleIOVolumeSource" :> schema_k8sio_api_core_v1_ScaleIOVolumeSource
  @@ "core.ScopeSelector" :> schema_k8sio_api_core_v1_ScopeSelector
  @@ "core.ScopedResourceSelectorRequirement" :> schema_k8sio_api_core_v1_ScopedResourceSelectorRequirement
  @@ "core.Secret" :> schema_k8sio_api_core_v1_Secret
  @@ "core.SecretEnvSource" :> schema_k8sio_api_core_v1_SecretEnvSource
  @@ "core.SecretKeySelector" :> schema_k8sio_api_core_v1_SecretKeySelector
  @@ "core.SecretList" :> schema_k8sio_api_core_v1_SecretList
  @@ "core.SecretProjection" :> schema_k8sio_api_core_v1_SecretProjection
  @@ "core.SecretReference" :> schema_k8sio_api_core_v1_SecretReference
  @@ "core.SecretVolumeSource" :> schema_k8sio_api_core_v1_SecretVolumeSource
  @@ "core.SecurityContext" :> schema_k8sio_api_core_v1_SecurityContext
  @@ "core.SerializedReference" :> schema_k8sio_api_core_v1_SerializedReference
  @@ "core.Service" :> schema_k8sio_api_core_v1_Service
  @@ "core.ServiceAccount" :> schema_k8sio_api_core_v1_ServiceAccount
  @@ "core.ServiceAccountList" :> schema_k8sio_api_core_v1_ServiceAccountList
  @@ "core.ServiceAccountTokenProjection" :> schema_k8sio_api_core_v1_ServiceAccountTokenProjection
  @@ "core.ServiceList" :> schema_k8sio_api_core_v1_ServiceList
  @@ "core.ServicePort" :> schema_k8sio_api_core_v1_ServicePort
  @@ "core.ServiceProxyOptions" :> schema_k8sio_api_core_v1_ServiceProxyOptions
  @@ "core.ServiceSpec" :> schema_k8sio_api_core_v1_ServiceSpec
  @@ "core.ServiceStatus" :> schema_k8sio_api_core_v1_ServiceStatus
  @@ "core.SessionAffinityConfig" :> schema_k8sio_api_core_v1_SessionAffinityConfig
  @@ "core.StorageOSPersistentVolumeSource" :> schema_k8sio_api_core_v1_StorageOSPersistentVolumeSource
  @@ "core.StorageOSVolumeSource" :> schema_k8sio_api_core_v1_StorageOSVolumeSource
  @@ "core.Sysctl" :> schema_k8sio_api_core_v1_Sysctl
  @@ "core.TCPSocketAction" :> schema_k8sio_api_core_v1_TCPSocketAction
  @@ "core.Taint" :> schema_k8sio_api_core_v1_Taint
  @@ "core.Toleration" :> schema_k8sio_api_core_v1_Toleration
  @@ "core.TopologySelectorLabelRequirement" :> schema_k8sio_api_core_v1_TopologySelectorLabelRequirement
  @@ "core.TopologySelectorTerm" :> schema_k8sio_api_core_v1_TopologySelectorTerm
  @@ "core.TypedLocalObjectReference" :> schema_k8sio_api_core_v1_TypedLocalObjectReference
  @@ "core.Volume" :> schema_k8sio_api_core_v1_Volume
  @@ "core.VolumeDevice" :> schema_k8sio_api_core_v1_VolumeDevice
  @@ "core.VolumeMount" :> schema_k8sio_api_core_v1_VolumeMount
  @@ "core.VolumeNodeAffinity" :> schema_k8sio_api_core_v1_VolumeNodeAffinity
  @@ "core.VolumeProjection" :> schema_k8sio_api_core_v1_VolumeProjection
  @@ "core.VolumeSource" :> schema_k8sio_api_core_v1_VolumeSource
  @@ "core.VsphereVirtualDiskVolumeSource" :> schema_k8sio_api_core_v1_VsphereVirtualDiskVolumeSource
  @@ "core.WeightedPodAffinityTerm" :> schema_k8sio_api_core_v1_WeightedPodAffinityTerm
  @@ "meta.APIGroup" :> schema_pkg_apis_meta_v1_APIGroup
  @@ "meta.APIGroupList" :> schema_pkg_apis_meta_v1_APIGroupList
  @@ "meta.APIResource" :> schema_pkg_apis_meta_v1_APIResource
  @@ "meta.APIResourceList" :> schema_pkg_apis_meta_v1_APIResourceList
  @@ "meta.APIVersions" :> schema_pkg_apis_meta_v1_APIVersions
  @@ "meta.DeleteOptions" :> schema_pkg_apis_meta_v1_DeleteOptions
  @@ "meta.Duration" :> schema_pkg_apis_meta_v1_Duration
  @@ "meta.ExportOptions" :> schema_pkg_apis_meta_v1_ExportOptions
  @@ "meta.GetOptions" :> schema_pkg_apis_meta_v1_GetOptions
  @@ "meta.GroupKind" :> schema_pkg_apis_meta_v1_GroupKind
  @@ "meta.GroupResource" :> schema_pkg_apis_meta_v1_GroupResource
  @@ "meta.GroupVersion" :> schema_pkg_apis_meta_v1_GroupVersion
  @@ "meta.GroupVersionForDiscovery" :> schema_pkg_apis_meta_v1_GroupVersionForDiscovery
  @@ "meta.GroupVersionKind" :> schema_pkg_apis_meta_v1_GroupVersionKind
  @@ "meta.GroupVersionResource" :> schema_pkg_apis_meta_v1_GroupVersionResource
  @@ "meta.Initializer" :> schema_pkg_apis_meta_v1_Initializer
  @@ "meta.Initializers" :> schema_pkg_apis_meta_v1_Initializers
  @@ "meta.InternalEvent" :> schema_pkg_apis_meta_v1_InternalEvent
  @@ "meta.LabelSelector" :> schema_pkg_apis_meta_v1_LabelSelector
  @@ "meta.LabelSelectorRequirement" :> schema_pkg_apis_meta_v1_LabelSelectorRequirement
  @@ "meta.List" :> schema_pkg_apis_meta_v1_List
  @@ "meta.ListMeta" :> schema_pkg_apis_meta_v1_ListMeta
  @@ "meta.ListOptions" :> schema_pkg_apis_meta_v1_ListOptions
  @@ "meta.MicroTime" :> schema_pkg_apis_meta_v1_MicroTime
  @@ "meta.ObjectMeta" :> schema_pkg_apis_meta_v1_ObjectMeta
  @@ "meta.OwnerReference" :> schema_pkg_apis_meta_v1_OwnerReference
  @@ "meta.Patch" :> schema_pkg_apis_meta_v1_Patch
  @@ "meta.Preconditions" :> schema_pkg_apis_meta_v1_Preconditions
  @@ "meta.RootPaths" :> schema_pkg_apis_meta_v1_RootPaths
  @@ "meta.ServerAddressByClientCIDR" :> schema_pkg_apis_meta_v1_ServerAddressByClientCIDR
  @@ "meta.Status" :> schema_pkg_apis_meta_v1_Status
  @@ "meta.StatusCause" :> schema_pkg_apis_meta_v1_StatusCause
  @@ "meta.StatusDetails" :> schema_pkg_apis_meta_v1_StatusDetails
  @@ "meta.Time" :> schema_pkg_apis_meta_v1_Time
  @@ "meta.Timestamp" :> schema_pkg_apis_meta_v1_Timestamp
  @@ "meta.TypeMeta" :> schema_pkg_apis_meta_v1_TypeMeta
  @@ "meta.WatchEvent" :> schema_pkg_apis_meta_v1_WatchEvent
=============================================================================
