----------------------------- MODULE Categories -----------------------------
(***************************************************************************)
(* The data categories of package datakit and the category enumeration of  *)
(* package point, as endpoint.go uses them: a category is the URL path of  *)
(* its API, and point.CatURL gives the small integer a cache record and a  *)
(* counter label stand for.                                                *)
(***************************************************************************)
EXTENDS Integers, Sequences

(* Categories (package datakit) and the URL paths they stand for. *)

Metric                 == "/v1/write/metric"
MetricDeprecated       == "/v1/write/metrics"
Network                == "/v1/write/network"
KeyEvent               == "/v1/write/keyevent"
Object                 == "/v1/write/object"
CustomObject           == "/v1/write/custom_object"
Logging                == "/v1/write/logging"
Tracing                == "/v1/write/tracing"
RUM                    == "/v1/write/rum"
Security               == "/v1/write/security"
Profiling              == "/v1/write/profiling"
LogFilter              == "/v1/logfilter/pull"
DatakitPull            == "/v1/datakit/pull"
DynamicDatawayCategory == "dynamicDatawayCategory"

\* The categories whose path holds "/v1/write/".
WritePaths ==
    {Metric, MetricDeprecated, Network, KeyEvent, Object, CustomObject,
     Logging, Tracing, RUM, Security, Profiling}

\* point.Category, the enumeration the cache record stores: position - 1.
PointCategoryURLs ==
    <<"/v1/write/unknown", "/v1/write/dynamic_dw", MetricDeprecated, Metric,
      Network, KeyEvent, Object, CustomObject, Logging, Tracing, RUM,
      Security, Profiling>>

UnknownCategory   == 0
DynamicDWCategory == 1

\* point.CatURL: the enumeration value of a URL path, UnknownCategory for a
\* string that is no such path.
CatURL(category) ==
    LET at == {i \in DOMAIN PointCategoryURLs : PointCategoryURLs[i] = category}
    IN  IF at = {} THEN UnknownCategory ELSE (CHOOSE i \in at : TRUE) - 1

=============================================================================
