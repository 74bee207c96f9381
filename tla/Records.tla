------------------------------ MODULE Records ------------------------------
(***************************************************************************)
(* The state holders of the library: one block of numbers and flags each,  *)
(* which create allocates, the other calls read and write, and destroy     *)
(* frees.                                                                  *)
(***************************************************************************)
EXTENDS Statements, TLC

A11yAction == Held
A11yTransparency == Held
AndroidNdkBridge == Held
AndroidStorage == Held
AndroidRenderer == Held
AppleGestures == Held
SignInWithApple == Held
LocalAuth == Held
Keychain == Held
BezierEase == Held
Breadcrumbs == Held
Caret == Held
CarplayFeatures == Held
ClipboardOverlay == Held
CollectionSection == Held
ColorPicker == Held
ComplexGesture == Held
EdgeSwipe == Held
CompositorAnim == Held
ContextMenu == Held
Datalist == Held
DatePicker == Held
DeveloperExperience == Held
DiscreteTransition == Held
Dpi == Held
DynamicType == Held
BoldText == Held
ButtonShapes == Held
IncreaseContrast == Held
HoverText == Held
AutoplayAvoidance == Held
EmbeddedPty == Held
IndexedDbVfs == Held
WidgetCtx == Held
LiveActivity == Held
Flip == Held
FocusRing == Held
ForcedColors == Held
FormControls == Held
Gesture == Held
Gpu == Held
Haptics == Held
HitTest == Held
HoverIntent == Held
I18nFormatting == Held
ImagePreview == Held
Ime == Held
Indeterminate == Held
InputLayout == Held
InputMask == Held
Stepper == Held
Slider == Held
IosBackgroundRefresh == Held
IosFeatures == Held
IpadosFeatures == Held
KeyboardAvoidance == Held
PointerRegion == Held
KeyboardShortcut == Held
Keyframe == Held
LayerTiling == Held
LinearBlend == Held
MacosFeatures == Held
MarkdownParser == Held
Materials == Held
MathRenderer == Held
AudioSession == Held
ContainerCtx == Held
ResizeObserver == Held
MermaidRenderer == Held
Mipmap == Held
MotionPath == Held
Network == Held
OsCommunications == Held
OsScrollbar == Held
Overdraw == Held
Permissions == Held
PrivacyIndicators == Held
Pip == Held
PointerPressure == Held
LayerTree == Held
PrefersColorScheme == Held
PrefersReducedMotion == Held
PrintCtx == Held
ProfilingTelemetry == Held
PromotionLink == Held
Ptr == Held
ResilienceHandling == Held
RubberBand == Held
SafeAreas == Held
SandboxExec == Held
ScrollAnchor == Held
ScrollCtx == Held
ScrollSmooth == Held
ScrollTimeline == Held
ScrollVelocity == Held
ScrollView == Held
SecureNetwork == Held
Selection == Held
Spellcheck == Held
SpringAnimator == Held
SpringEase == Held
StatusBar == Held
StepEase == Held
StylusContext == Held
SyntaxHighlight == Held
SysColors == Held
TestingAutomation == Held
Tick == Held
TitlebarEnv == Held
PaymentCtx == Held
StorekitCtx == Held
CloudSyncCtx == Held
Transition == Held
Tvos == Held
Validation == Held
ViewTransition == Held
Visionos == Held
SemanticColors == Held
ColorPipeline == Held
VtShared == Held
Watchos == Held
WebglCanvas == Held
WindowBlur == Held
WorkspaceLayout == Held
SystemGeometry == Held
ResourceManager == Held
WaylandProtocols == Held

Records ==
  [A11yAction |-> A11yAction, A11yTransparency |-> A11yTransparency,
   AndroidNdkBridge |-> AndroidNdkBridge, AndroidStorage |-> AndroidStorage,
   AndroidRenderer |-> AndroidRenderer, AppleGestures |-> AppleGestures,
   SignInWithApple |-> SignInWithApple, LocalAuth |-> LocalAuth, Keychain |-> Keychain,
   BezierEase |-> BezierEase, Breadcrumbs |-> Breadcrumbs, Caret |-> Caret,
   CarplayFeatures |-> CarplayFeatures, ClipboardOverlay |-> ClipboardOverlay,
   CollectionSection |-> CollectionSection, ColorPicker |-> ColorPicker,
   ComplexGesture |-> ComplexGesture, EdgeSwipe |-> EdgeSwipe,
   CompositorAnim |-> CompositorAnim, ContextMenu |-> ContextMenu, Datalist |-> Datalist,
   DatePicker |-> DatePicker, DeveloperExperience |-> DeveloperExperience,
   DiscreteTransition |-> DiscreteTransition, Dpi |-> Dpi, DynamicType |-> DynamicType,
   BoldText |-> BoldText, ButtonShapes |-> ButtonShapes,
   IncreaseContrast |-> IncreaseContrast, HoverText |-> HoverText,
   AutoplayAvoidance |-> AutoplayAvoidance, EmbeddedPty |-> EmbeddedPty,
   IndexedDbVfs |-> IndexedDbVfs, WidgetCtx |-> WidgetCtx, LiveActivity |-> LiveActivity,
   Flip |-> Flip, FocusRing |-> FocusRing, ForcedColors |-> ForcedColors,
   FormControls |-> FormControls, Gesture |-> Gesture, Gpu |-> Gpu, Haptics |-> Haptics,
   HitTest |-> HitTest, HoverIntent |-> HoverIntent, I18nFormatting |-> I18nFormatting,
   ImagePreview |-> ImagePreview, Ime |-> Ime, Indeterminate |-> Indeterminate,
   InputLayout |-> InputLayout, InputMask |-> InputMask, Stepper |-> Stepper,
   Slider |-> Slider, IosBackgroundRefresh |-> IosBackgroundRefresh,
   IosFeatures |-> IosFeatures, IpadosFeatures |-> IpadosFeatures,
   KeyboardAvoidance |-> KeyboardAvoidance, PointerRegion |-> PointerRegion,
   KeyboardShortcut |-> KeyboardShortcut, Keyframe |-> Keyframe, LayerTiling |-> LayerTiling,
   LinearBlend |-> LinearBlend, MacosFeatures |-> MacosFeatures,
   MarkdownParser |-> MarkdownParser, Materials |-> Materials, MathRenderer |-> MathRenderer,
   AudioSession |-> AudioSession, ContainerCtx |-> ContainerCtx,
   ResizeObserver |-> ResizeObserver, MermaidRenderer |-> MermaidRenderer, Mipmap |-> Mipmap,
   MotionPath |-> MotionPath, Network |-> Network, OsCommunications |-> OsCommunications,
   OsScrollbar |-> OsScrollbar, Overdraw |-> Overdraw, Permissions |-> Permissions,
   PrivacyIndicators |-> PrivacyIndicators, Pip |-> Pip, PointerPressure |-> PointerPressure,
   LayerTree |-> LayerTree, PrefersColorScheme |-> PrefersColorScheme,
   PrefersReducedMotion |-> PrefersReducedMotion, PrintCtx |-> PrintCtx,
   ProfilingTelemetry |-> ProfilingTelemetry, PromotionLink |-> PromotionLink, Ptr |-> Ptr,
   ResilienceHandling |-> ResilienceHandling, RubberBand |-> RubberBand,
   SafeAreas |-> SafeAreas, SandboxExec |-> SandboxExec, ScrollAnchor |-> ScrollAnchor,
   ScrollCtx |-> ScrollCtx, ScrollSmooth |-> ScrollSmooth, ScrollTimeline |-> ScrollTimeline,
   ScrollVelocity |-> ScrollVelocity, ScrollView |-> ScrollView,
   SecureNetwork |-> SecureNetwork, Selection |-> Selection, Spellcheck |-> Spellcheck,
   SpringAnimator |-> SpringAnimator, SpringEase |-> SpringEase, StatusBar |-> StatusBar,
   StepEase |-> StepEase, StylusContext |-> StylusContext,
   SyntaxHighlight |-> SyntaxHighlight, SysColors |-> SysColors,
   TestingAutomation |-> TestingAutomation, Tick |-> Tick, TitlebarEnv |-> TitlebarEnv,
   PaymentCtx |-> PaymentCtx, StorekitCtx |-> StorekitCtx, CloudSyncCtx |-> CloudSyncCtx,
   Transition |-> Transition, Tvos |-> Tvos, Validation |-> Validation,
   ViewTransition |-> ViewTransition, Visionos |-> Visionos,
   SemanticColors |-> SemanticColors, ColorPipeline |-> ColorPipeline, VtShared |-> VtShared,
   Watchos |-> Watchos, WebglCanvas |-> WebglCanvas, WindowBlur |-> WindowBlur,
   WorkspaceLayout |-> WorkspaceLayout, SystemGeometry |-> SystemGeometry,
   ResourceManager |-> ResourceManager, WaylandProtocols |-> WaylandProtocols]
=============================================================================
