----------------------------- MODULE BaseMapLayer -----------------------------
(***************************************************************************)
(* The base map of the page (L.OSMBaseLayer and setBaseLayer in            *)
(* public_html/map.html): the satellite tiles, or the map of OSM, which is *)
(* a vector layer where the browser can draw one and a layer of tiles      *)
(* where it cannot, where no style is configured for the theme, or where   *)
(* the style does not load.  The probe for MapLibre asks for a function    *)
(* `supported', which the MapLibre of this repository does not export      *)
(* (maplibre-gl.js): with it a page is one of the Builds that are not      *)
(* supported, and shows tiles.                                             *)
(***************************************************************************)
EXTENDS VectorLayer

CONSTANTS
    Builds      \* the pages: the themes with a style, and what the probe for MapLibre answers

BaseMapAssumption ==
    Builds \subseteq [styled : SUBSET {"light", "dark"}, supported : BOOLEAN]

VARIABLES
    build,      \* this page
    theme,      \* _themeName
    tiles,      \* the layers on the map besides the vector layers
    renderer,   \* _activeBaseRenderer, "none" for null; "stuck": a layer without its map
    ready,      \* _vectorStyleReady
    style       \* of MapLibre: "none", "loading", "changing" or "loaded"

ownerVars == <<build, theme, tiles, renderer, ready, style>>
baseVars == <<bridgeVars, ownerVars>>

Styled(t) == t \in build.styled
-----------------------------------------------------------------------------
(* _showPreferredRenderer, and the removal of the layer that was shown.    *)
(* Where the new map of MapLibre cannot be made, the layer that was to     *)
(* hold it is on the Leaflet map without one: taking it off throws, so     *)
(* that no fallback is shown.  Where it fails after it was made, the layer *)
(* is taken off and the tiles are shown.                                   *)
Preferred(t) ==
    IF Styled(t) /\ build.supported THEN {"vector", "stuck", "raster"} ELSE {"raster"}

Show(r, t, others) ==
    /\ renderer' = r /\ theme' = t /\ ready' = FALSE
    /\ tiles' = others \cup ({r} \cap {"raster"})
    /\ style' = IF r = "vector" THEN "loading" ELSE "none"
    /\ IF r = "vector" THEN NewLayer ELSE NoLayer
    /\ DropFrames

(* setBaseLayer, also with the layer that is shown already. *)
Select(base) ==
    /\ IF base = "osm" THEN \E r \in Preferred(theme) : Show(r, theme, {"osm"})
                       ELSE Show("none", theme, {"satellite"})
    /\ UNCHANGED <<build, view, target, transition, pinching>>

(* _showRasterFallback, which leaves a raster renderer alone. *)
Fallback(t) ==
    /\ Show("raster", t, tiles)
    /\ UNCHANGED <<build, view, target, transition, pinching>>

SetTheme ==
    \E t \in {"light", "dark"} \ {theme} :
        IF renderer = "vector"
        THEN IF Styled(t)
             THEN /\ theme' = t /\ ready' = FALSE
                  /\ style' = IF style = "loaded" THEN "changing" ELSE "loading"
                  /\ UNCHANGED <<build, tiles, renderer, bridgeVars>>
             ELSE Fallback(t)
        ELSE /\ theme' = t
             /\ UNCHANGED <<build, tiles, renderer, ready, style, bridgeVars>>

(* The style arrives and is announced by 'style.load'. *)
StyleLoads ==
    /\ style \in {"loading", "changing"}
    /\ style' = "loaded" /\ ready' = TRUE
    /\ UNCHANGED <<build, theme, tiles, renderer, bridgeVars>>

(* MapLibre changes the loaded style by its differences to the new one and *)
(* announces nothing.                                                      *)
StyleDiffed ==
    /\ style = "changing" /\ style' = "loaded"
    /\ UNCHANGED <<build, theme, tiles, renderer, ready, bridgeVars>>

(* An error of the style or of a tile; once the style is ready only the    *)
(* state of the connection is touched.                                     *)
MapErrs ==
    /\ renderer = "vector" /\ ~ready
    /\ Fallback(theme)

BaseInit ==
    /\ BridgeInit
    /\ build \in Builds /\ theme \in {"light", "dark"}
    /\ tiles = {"satellite"} /\ renderer = "none" /\ ready = FALSE /\ style = "none"

(* A layer without its map answers every event of Leaflet, the selection   *)
(* of a base and the fallback with an exception, here the end.             *)
BaseNext ==
    /\ renderer # "stuck"
    /\ \/ BridgeNext /\ UNCHANGED ownerVars
       \/ \E base \in {"osm", "satellite"} : Select(base)
       \/ SetTheme \/ StyleLoads \/ StyleDiffed \/ MapErrs

BaseSpec == BaseInit /\ [][BaseNext]_baseVars
-----------------------------------------------------------------------------
(* The map has exactly the base that is selected, with the renderer its    *)
(* owner knows of and no second one.                                       *)
OneBase ==
    \/ renderer = "none" /\ tiles = {"satellite"} /\ layers = {}
    \/ renderer = "raster" /\ tiles = {"osm", "raster"} /\ layers = {}
    \/ renderer = "vector" /\ tiles = {"osm"} /\ \E l \in layers : layers = {l}

(* The map has one base, and at rest a vector renderer shows what the map  *)
(* shows: camera, place, size, and no transform left over from an          *)
(* animation, whatever animations, gestures, frames and timers went before *)
(* (map.html setBaseLayer; leaflet-maplibre-gl.js _update, _zoomEnd,       *)
(* _transitionEnd).  Not where a map of MapLibre could not be made         *)
(* (map.html:7223): that page keeps no working base.                       *)
BaseMapExact ==
    renderer # "stuck" => OneBase /\ (BaseAtRest => \A l \in layers : Exact(l))
=============================================================================
